---------------------------- MODULE Spec2Model ----------------------------
(***************************************************************************)
(* A model of the argument-resolution helpers, the flux-versus-energy      *)
(* plotting routines and the coordinate transforms of the EPREM analysis   *)
(* scripts.                                                                *)
(*                                                                         *)
(* Command-line tokens are sequences of one-character strings, so that     *)
(* int() and float() are modelled by the parsing they do.  A Python value  *)
(* is a record whose `kind` names its type; a raised exception is a value  *)
(* of kind "raised".                                                       *)
(***************************************************************************)
EXTENDS Integers, Sequences, FiniteSets, TLC

VARIABLES
    op,        \* the function applied so far ("none" before the call)
    args,      \* compute_indexer: the argument (None or a list of tokens)
    user,      \* the `user` dictionary handed to the get_* helpers
    result,    \* what the call returned or raised
    dataset,   \* the number of streams in the dataset a script reads
    todo,      \* the streams a script's loop has still to plot
    fig,       \* the current figure: the curves plotted on it
    saved,     \* the streams whose figure has been saved, in order
    xyz,       \* a point handed to xyz2rtp
    rtp,       \* what xyz2rtp returned for it
    back,      \* what rtp2xyz returned for that
    raw,       \* the values of r and of x, y, z before their flooring
    series,    \* an array handed to smooth
    xs,        \* smooth: what the filter gave for it
    smoothed,  \* what smooth returned for it
    obs,       \* write-node-history: the observation to write
    file,      \* a node-history file: its header line and its rows
    history,   \* what parse_history returned for the file
    units,     \* the unit a plot used for each quantity
    disk,      \* the output files that exist
    clock,     \* the time of day, in seconds
    runs,      \* which run of the script this is: the first or a later one
    before,    \* the output files that existed when this run began
    terms,     \* plot_accel_terms: the series each group was computed from
    props,     \* streams3D: the properties a PanelProperties has resolved
    panel,     \* streams3D: a Panel, its elements, traces and colorscale
    markers    \* streams3D: the marker dictionaries the elements refer to

vars == <<op, args, user, result, dataset, todo, fig, saved, xyz, rtp, back, raw,
          series, xs, smoothed, obs, file, history,
          units, disk, clock, runs, before, terms, props, panel, markers>>

---------------------------------------------------------------------------
(* Python values *)

PyNone == [kind |-> "None"]
PyInt(n) == [kind |-> "int", n |-> n]
PyStr(s) == [kind |-> "str", s |-> s]
\* A list of command-line tokens.
PyList(toks) == [kind |-> "list", toks |-> toks]
\* A list of integers (argparse with type=int and nargs).
PyIntList(ns) == [kind |-> "intlist", ns |-> ns]

\* bool(v), as `if v` and `x or y` take it.
Truthy(v) ==
    CASE v.kind = "None" -> FALSE
      [] v.kind = "int" -> v.n # 0
      [] v.kind = "str" -> v.s # <<>>
      [] v.kind = "list" -> v.toks # <<>>
      [] v.kind = "intlist" -> v.ns # <<>>
      [] OTHER -> TRUE

---------------------------------------------------------------------------
(* Bounds *)

\* The longest token list handed to compute_indexer.
MaxTokens == 3

\* The most streams a dataset holds.
MaxStreams == 2

---------------------------------------------------------------------------
(* Tokens and Python's int() / float() on strings *)

\* A character is a string: itself when it is a printable character of
\* ASCII, "\t", "\n", "\r", "\f" and " " for those, and "U+" and the four
\* or five hexadecimal digits of its code point for every other one
\* ("U+000B" is the vertical tab, "U+0663" the Arabic-Indic digit three).

\* The decimal digits (category Nd) by their value, 0 first: int() and
\* float() take every one of them for the ASCII digit of its value.
DecimalDigits ==
    << { "0", "U+0660", "U+06F0", "U+07C0", "U+0966", "U+09E6", "U+0A66",
         "U+0AE6", "U+0B66", "U+0BE6", "U+0C66", "U+0CE6", "U+0D66",
         "U+0DE6", "U+0E50", "U+0ED0", "U+0F20", "U+1040", "U+1090",
         "U+17E0", "U+1810", "U+1946", "U+19D0", "U+1A80", "U+1A90",
         "U+1B50", "U+1BB0", "U+1C40", "U+1C50", "U+A620", "U+A8D0",
         "U+A900", "U+A9D0", "U+A9F0", "U+AA50", "U+ABF0", "U+FF10",
         "U+104A0", "U+10D30", "U+11066", "U+110F0", "U+11136", "U+111D0",
         "U+112F0", "U+11450", "U+114D0", "U+11650", "U+116C0", "U+11730",
         "U+118E0", "U+11950", "U+11C50", "U+11D50", "U+11DA0", "U+16A60",
         "U+16AC0", "U+16B50", "U+1D7CE", "U+1D7D8", "U+1D7E2", "U+1D7EC",
         "U+1D7F6", "U+1E140", "U+1E2F0", "U+1E950", "U+1FBF0" },
       { "1", "U+0661", "U+06F1", "U+07C1", "U+0967", "U+09E7", "U+0A67",
         "U+0AE7", "U+0B67", "U+0BE7", "U+0C67", "U+0CE7", "U+0D67",
         "U+0DE7", "U+0E51", "U+0ED1", "U+0F21", "U+1041", "U+1091",
         "U+17E1", "U+1811", "U+1947", "U+19D1", "U+1A81", "U+1A91",
         "U+1B51", "U+1BB1", "U+1C41", "U+1C51", "U+A621", "U+A8D1",
         "U+A901", "U+A9D1", "U+A9F1", "U+AA51", "U+ABF1", "U+FF11",
         "U+104A1", "U+10D31", "U+11067", "U+110F1", "U+11137", "U+111D1",
         "U+112F1", "U+11451", "U+114D1", "U+11651", "U+116C1", "U+11731",
         "U+118E1", "U+11951", "U+11C51", "U+11D51", "U+11DA1", "U+16A61",
         "U+16AC1", "U+16B51", "U+1D7CF", "U+1D7D9", "U+1D7E3", "U+1D7ED",
         "U+1D7F7", "U+1E141", "U+1E2F1", "U+1E951", "U+1FBF1" },
       { "2", "U+0662", "U+06F2", "U+07C2", "U+0968", "U+09E8", "U+0A68",
         "U+0AE8", "U+0B68", "U+0BE8", "U+0C68", "U+0CE8", "U+0D68",
         "U+0DE8", "U+0E52", "U+0ED2", "U+0F22", "U+1042", "U+1092",
         "U+17E2", "U+1812", "U+1948", "U+19D2", "U+1A82", "U+1A92",
         "U+1B52", "U+1BB2", "U+1C42", "U+1C52", "U+A622", "U+A8D2",
         "U+A902", "U+A9D2", "U+A9F2", "U+AA52", "U+ABF2", "U+FF12",
         "U+104A2", "U+10D32", "U+11068", "U+110F2", "U+11138", "U+111D2",
         "U+112F2", "U+11452", "U+114D2", "U+11652", "U+116C2", "U+11732",
         "U+118E2", "U+11952", "U+11C52", "U+11D52", "U+11DA2", "U+16A62",
         "U+16AC2", "U+16B52", "U+1D7D0", "U+1D7DA", "U+1D7E4", "U+1D7EE",
         "U+1D7F8", "U+1E142", "U+1E2F2", "U+1E952", "U+1FBF2" },
       { "3", "U+0663", "U+06F3", "U+07C3", "U+0969", "U+09E9", "U+0A69",
         "U+0AE9", "U+0B69", "U+0BE9", "U+0C69", "U+0CE9", "U+0D69",
         "U+0DE9", "U+0E53", "U+0ED3", "U+0F23", "U+1043", "U+1093",
         "U+17E3", "U+1813", "U+1949", "U+19D3", "U+1A83", "U+1A93",
         "U+1B53", "U+1BB3", "U+1C43", "U+1C53", "U+A623", "U+A8D3",
         "U+A903", "U+A9D3", "U+A9F3", "U+AA53", "U+ABF3", "U+FF13",
         "U+104A3", "U+10D33", "U+11069", "U+110F3", "U+11139", "U+111D3",
         "U+112F3", "U+11453", "U+114D3", "U+11653", "U+116C3", "U+11733",
         "U+118E3", "U+11953", "U+11C53", "U+11D53", "U+11DA3", "U+16A63",
         "U+16AC3", "U+16B53", "U+1D7D1", "U+1D7DB", "U+1D7E5", "U+1D7EF",
         "U+1D7F9", "U+1E143", "U+1E2F3", "U+1E953", "U+1FBF3" },
       { "4", "U+0664", "U+06F4", "U+07C4", "U+096A", "U+09EA", "U+0A6A",
         "U+0AEA", "U+0B6A", "U+0BEA", "U+0C6A", "U+0CEA", "U+0D6A",
         "U+0DEA", "U+0E54", "U+0ED4", "U+0F24", "U+1044", "U+1094",
         "U+17E4", "U+1814", "U+194A", "U+19D4", "U+1A84", "U+1A94",
         "U+1B54", "U+1BB4", "U+1C44", "U+1C54", "U+A624", "U+A8D4",
         "U+A904", "U+A9D4", "U+A9F4", "U+AA54", "U+ABF4", "U+FF14",
         "U+104A4", "U+10D34", "U+1106A", "U+110F4", "U+1113A", "U+111D4",
         "U+112F4", "U+11454", "U+114D4", "U+11654", "U+116C4", "U+11734",
         "U+118E4", "U+11954", "U+11C54", "U+11D54", "U+11DA4", "U+16A64",
         "U+16AC4", "U+16B54", "U+1D7D2", "U+1D7DC", "U+1D7E6", "U+1D7F0",
         "U+1D7FA", "U+1E144", "U+1E2F4", "U+1E954", "U+1FBF4" },
       { "5", "U+0665", "U+06F5", "U+07C5", "U+096B", "U+09EB", "U+0A6B",
         "U+0AEB", "U+0B6B", "U+0BEB", "U+0C6B", "U+0CEB", "U+0D6B",
         "U+0DEB", "U+0E55", "U+0ED5", "U+0F25", "U+1045", "U+1095",
         "U+17E5", "U+1815", "U+194B", "U+19D5", "U+1A85", "U+1A95",
         "U+1B55", "U+1BB5", "U+1C45", "U+1C55", "U+A625", "U+A8D5",
         "U+A905", "U+A9D5", "U+A9F5", "U+AA55", "U+ABF5", "U+FF15",
         "U+104A5", "U+10D35", "U+1106B", "U+110F5", "U+1113B", "U+111D5",
         "U+112F5", "U+11455", "U+114D5", "U+11655", "U+116C5", "U+11735",
         "U+118E5", "U+11955", "U+11C55", "U+11D55", "U+11DA5", "U+16A65",
         "U+16AC5", "U+16B55", "U+1D7D3", "U+1D7DD", "U+1D7E7", "U+1D7F1",
         "U+1D7FB", "U+1E145", "U+1E2F5", "U+1E955", "U+1FBF5" },
       { "6", "U+0666", "U+06F6", "U+07C6", "U+096C", "U+09EC", "U+0A6C",
         "U+0AEC", "U+0B6C", "U+0BEC", "U+0C6C", "U+0CEC", "U+0D6C",
         "U+0DEC", "U+0E56", "U+0ED6", "U+0F26", "U+1046", "U+1096",
         "U+17E6", "U+1816", "U+194C", "U+19D6", "U+1A86", "U+1A96",
         "U+1B56", "U+1BB6", "U+1C46", "U+1C56", "U+A626", "U+A8D6",
         "U+A906", "U+A9D6", "U+A9F6", "U+AA56", "U+ABF6", "U+FF16",
         "U+104A6", "U+10D36", "U+1106C", "U+110F6", "U+1113C", "U+111D6",
         "U+112F6", "U+11456", "U+114D6", "U+11656", "U+116C6", "U+11736",
         "U+118E6", "U+11956", "U+11C56", "U+11D56", "U+11DA6", "U+16A66",
         "U+16AC6", "U+16B56", "U+1D7D4", "U+1D7DE", "U+1D7E8", "U+1D7F2",
         "U+1D7FC", "U+1E146", "U+1E2F6", "U+1E956", "U+1FBF6" },
       { "7", "U+0667", "U+06F7", "U+07C7", "U+096D", "U+09ED", "U+0A6D",
         "U+0AED", "U+0B6D", "U+0BED", "U+0C6D", "U+0CED", "U+0D6D",
         "U+0DED", "U+0E57", "U+0ED7", "U+0F27", "U+1047", "U+1097",
         "U+17E7", "U+1817", "U+194D", "U+19D7", "U+1A87", "U+1A97",
         "U+1B57", "U+1BB7", "U+1C47", "U+1C57", "U+A627", "U+A8D7",
         "U+A907", "U+A9D7", "U+A9F7", "U+AA57", "U+ABF7", "U+FF17",
         "U+104A7", "U+10D37", "U+1106D", "U+110F7", "U+1113D", "U+111D7",
         "U+112F7", "U+11457", "U+114D7", "U+11657", "U+116C7", "U+11737",
         "U+118E7", "U+11957", "U+11C57", "U+11D57", "U+11DA7", "U+16A67",
         "U+16AC7", "U+16B57", "U+1D7D5", "U+1D7DF", "U+1D7E9", "U+1D7F3",
         "U+1D7FD", "U+1E147", "U+1E2F7", "U+1E957", "U+1FBF7" },
       { "8", "U+0668", "U+06F8", "U+07C8", "U+096E", "U+09EE", "U+0A6E",
         "U+0AEE", "U+0B6E", "U+0BEE", "U+0C6E", "U+0CEE", "U+0D6E",
         "U+0DEE", "U+0E58", "U+0ED8", "U+0F28", "U+1048", "U+1098",
         "U+17E8", "U+1818", "U+194E", "U+19D8", "U+1A88", "U+1A98",
         "U+1B58", "U+1BB8", "U+1C48", "U+1C58", "U+A628", "U+A8D8",
         "U+A908", "U+A9D8", "U+A9F8", "U+AA58", "U+ABF8", "U+FF18",
         "U+104A8", "U+10D38", "U+1106E", "U+110F8", "U+1113E", "U+111D8",
         "U+112F8", "U+11458", "U+114D8", "U+11658", "U+116C8", "U+11738",
         "U+118E8", "U+11958", "U+11C58", "U+11D58", "U+11DA8", "U+16A68",
         "U+16AC8", "U+16B58", "U+1D7D6", "U+1D7E0", "U+1D7EA", "U+1D7F4",
         "U+1D7FE", "U+1E148", "U+1E2F8", "U+1E958", "U+1FBF8" },
       { "9", "U+0669", "U+06F9", "U+07C9", "U+096F", "U+09EF", "U+0A6F",
         "U+0AEF", "U+0B6F", "U+0BEF", "U+0C6F", "U+0CEF", "U+0D6F",
         "U+0DEF", "U+0E59", "U+0ED9", "U+0F29", "U+1049", "U+1099",
         "U+17E9", "U+1819", "U+194F", "U+19D9", "U+1A89", "U+1A99",
         "U+1B59", "U+1BB9", "U+1C49", "U+1C59", "U+A629", "U+A8D9",
         "U+A909", "U+A9D9", "U+A9F9", "U+AA59", "U+ABF9", "U+FF19",
         "U+104A9", "U+10D39", "U+1106F", "U+110F9", "U+1113F", "U+111D9",
         "U+112F9", "U+11459", "U+114D9", "U+11659", "U+116C9", "U+11739",
         "U+118E9", "U+11959", "U+11C59", "U+11D59", "U+11DA9", "U+16A69",
         "U+16AC9", "U+16B59", "U+1D7D7", "U+1D7E1", "U+1D7EB", "U+1D7F5",
         "U+1D7FF", "U+1E149", "U+1E2F9", "U+1E959", "U+1FBF9" } >>

Digits == UNION { DecimalDigits[v + 1] : v \in 0..9 }

DigitVal(c) == CHOOSE v \in 0..9 : c \in DecimalDigits[v + 1]

\* The tokens the model draws from: integers (with sign, with digits in
\* groups and of another script, with whitespace), decimals, an exponent
\* form, an infinity, and words that are no number at all.
TokenPool ==
    { <<"0">>, <<"3">>, <<"-", "1">>, <<"+", "1", "_", "U+0662">>,
      <<"U+000B", "4", "U+00A0">>,
      <<"1", ".", "5">>, <<"2", ".", "0">>, <<"1", "e", "2">>, <<"i", "n", "f">>,
      <<"a", "u">>, <<"a", "b", "c">> }

\* The characters of str.isspace(): what str.strip() and str.rstrip()
\* strip, and what \s of a regular expression matches.
Whitespace ==
    { "\t", "\n", "U+000B", "\f", "\r", "U+001C", "U+001D", "U+001E",
      "U+001F", " ", "U+0085", "U+00A0", "U+1680", "U+2000", "U+2001",
      "U+2002", "U+2003", "U+2004", "U+2005", "U+2006", "U+2007",
      "U+2008", "U+2009", "U+200A", "U+2028", "U+2029", "U+202F",
      "U+205F", "U+3000" }

\* The whitespace int() and float() strip: that of str.isspace() but for the
\* four separators U+001C to U+001F.
NumberSpace == Whitespace \ {"U+001C", "U+001D", "U+001E", "U+001F"}

RECURSIVE LStrip(_)
LStrip(s) == IF s # <<>> /\ Head(s) \in Whitespace THEN LStrip(Tail(s)) ELSE s

RECURSIVE RStrip(_)
RStrip(s) ==
    IF s # <<>> /\ s[Len(s)] \in Whitespace THEN RStrip(SubSeq(s, 1, Len(s) - 1)) ELSE s

\* str.strip().
Strip(s) == RStrip(LStrip(s))

\* The token within the whitespace around it, which int() and float() skip.
RECURSIVE Unpadded(_)
Unpadded(s) ==
    IF s # <<>> /\ Head(s) \in NumberSpace THEN Unpadded(Tail(s))
    ELSE IF s # <<>> /\ s[Len(s)] \in NumberSpace THEN Unpadded(SubSeq(s, 1, Len(s) - 1))
    ELSE s

AllDigits(s) == \A i \in 1..Len(s) : s[i] \in Digits

RECURSIVE DigitsVal(_)
DigitsVal(s) ==
    IF s = <<>> THEN 0
    ELSE DigitsVal(SubSeq(s, 1, Len(s) - 1)) * 10 + DigitVal(s[Len(s)])

HasSign(s) == s # <<>> /\ Head(s) \in {"+", "-"}
Unsigned(s) == IF HasSign(s) THEN Tail(s) ELSE s
SignOf(s) == IF s # <<>> /\ Head(s) = "-" THEN -1 ELSE 1

\* Digits in groups: single underscores may stand between two digits.
Grouped(s) ==
    /\ s # <<>>
    /\ \A i \in 1..Len(s) : s[i] \in Digits \cup {"_"}
    /\ s[1] \in Digits
    /\ s[Len(s)] \in Digits
    /\ \A i \in 1..(Len(s) - 1) : ~(s[i] = "_" /\ s[i + 1] = "_")

\* The digits of a grouped number.
Ungrouped(s) == SelectSeq(s, LAMBDA c : c \in Digits)

\* int(token): [ok |-> it parses, val |-> its value].
IntParse(tok) ==
    LET s    == Unpadded(tok)
        body == Unsigned(s)
        ok   == Grouped(body)
    IN  [ok |-> ok, val |-> IF ok THEN SignOf(s) * DigitsVal(Ungrouped(body)) ELSE 0]

\* A float is the decimal m * 10^e, with m not a multiple of 10 (0 is 0 * 10^0).
RECURSIVE Dec(_, _)
Dec(m, e) ==
    IF m = 0 THEN [m |-> 0, e |-> 0]
    ELSE IF m % 10 = 0 THEN Dec(m \div 10, e + 1)
    ELSE [m |-> m, e |-> e]

\* The first position of a character of `cs` in s, or 0.
FirstOf(s, cs) ==
    IF \E i \in 1..Len(s) : s[i] \in cs
    THEN CHOOSE i \in 1..Len(s) : s[i] \in cs /\ \A j \in 1..(i - 1) : s[j] \notin cs
    ELSE 0

\* str.lower() of a character, for the capitals the model uses.
Lower(c) ==
    CASE c = "I" -> "i" [] c = "N" -> "n" [] c = "F" -> "f" [] c = "T" -> "t"
      [] c = "Y" -> "y" [] c = "A" -> "a" [] c = "D" -> "d" [] c = "Q" -> "q"
      [] OTHER -> c

\* A float that is no decimal: inf, -inf or nan.
Special(name) == [special |-> name]

\* How many digits a natural number has.
RECURSIVE NumDigits(_)
NumDigits(n) == IF n < 10 THEN 1 ELSE 1 + NumDigits(n \div 10)

RECURSIVE Tens(_)
Tens(k) == IF k = 0 THEN 1 ELSE 10 * Tens(k - 1)

\* The first nine digits of a natural number of at most ten digits, zeros
\* filling up a shorter one.
Lead9(n) ==
    IF NumDigits(n) > 9 THEN n \div 10 ELSE n * Tens(9 - NumDigits(n))

\* The decimal n * 10^e, n > 0, is too large for a float: it rounds to
\* 2^1024, which is 1.7976931348623158...e308 or more.
Overflows(n, e) ==
    \/ NumDigits(n) + e > 309
    \/ /\ NumDigits(n) + e = 309
       /\ \/ Lead9(n) > 179769313
          \/ NumDigits(n) > 9 /\ Lead9(n) = 179769313 /\ n % 10 >= 5

\* The decimal n * 10^e, n > 0, is too small for a float: it rounds to 0.0,
\* which is below 2.4703282292...e-324.
Underflows(n, e) ==
    \/ NumDigits(n) + e < -323
    \/ NumDigits(n) + e = -323 /\ Lead9(n) <= 247032822

\* The float of the decimal sign * n * 10^e of a token: inf or -inf where it
\* overflows, 0.0 where it underflows.
FloatOf(sign, n, e) ==
    IF n = 0 THEN Dec(0, 0)
    ELSE IF Overflows(Dec(n, e).m, Dec(n, e).e)
    THEN Special(IF sign = -1 THEN "-inf" ELSE "inf")
    ELSE IF Underflows(Dec(n, e).m, Dec(n, e).e) THEN Dec(0, 0)
    ELSE Dec(sign * n, e)

\* float(token): [ok |-> it parses, val |-> its value as a decimal, or as
\* inf, -inf or nan].
FloatParse(tok) ==
    LET s     == Unpadded(tok)
        body  == Unsigned(s)
        word  == [i \in 1..Len(body) |-> Lower(body[i])]
        ePos  == FirstOf(body, {"e", "E"})
        mant  == IF ePos = 0 THEN body ELSE SubSeq(body, 1, ePos - 1)
        expo  == IF ePos = 0 THEN <<>> ELSE SubSeq(body, ePos + 1, Len(body))
        dot   == FirstOf(mant, {"."})
        ipart == IF dot = 0 THEN mant ELSE SubSeq(mant, 1, dot - 1)
        fpart == IF dot = 0 THEN <<>> ELSE SubSeq(mant, dot + 1, Len(mant))
        ebody == Unsigned(expo)
        mOk   == /\ ipart = <<>> \/ Grouped(ipart)
                 /\ fpart = <<>> \/ Grouped(fpart)
                 /\ Len(ipart) + Len(fpart) > 0
        eOk   == ePos = 0 \/ Grouped(ebody)
        ok    == mOk /\ eOk
        eVal  == IF ePos = 0 THEN 0 ELSE SignOf(expo) * DigitsVal(Ungrouped(ebody))
    IN  IF word \in {<<"i", "n", "f">>, <<"i", "n", "f", "i", "n", "i", "t", "y">>}
        THEN [ok |-> TRUE, val |-> Special(IF SignOf(s) = -1 THEN "-inf" ELSE "inf")]
        ELSE IF word = <<"n", "a", "n">>
        THEN [ok |-> TRUE, val |-> Special("nan")]
        ELSE [ok  |-> ok,
              val |-> IF ok
                      THEN FloatOf(SignOf(s),
                                   DigitsVal(Ungrouped(ipart) \o Ungrouped(fpart)),
                                   eVal - Len(Ungrouped(fpart)))
                      ELSE Dec(0, 0)]

---------------------------------------------------------------------------
(* What a call returns or raises *)

\* A tuple of integer indices.
Indices(idx) == [kind |-> "Indices", idx |-> idx]

\* quantity.measure(*values, unit): the values tagged with their unit.
Measurement(values, unit) ==
    [kind |-> "Measurement", values |-> values, unit |-> unit, from |-> unit]

\* Measurement.withunit(unit): the same physical values expressed in `unit`
\* (`from` keeps the unit the numbers were given in).
withunit(m, unit) == [m EXCEPT !.unit = unit]

\* An uncaught exception of class `cls`, raised at `site`.
Raised(cls, site) == [kind |-> "raised", cls |-> cls, site |-> site]

IsRaised(v) == v.kind = "raised"

NoResult == [kind |-> "pending"]

---------------------------------------------------------------------------
(* compute_indexer *)

AllInts(toks) == \A i \in 1..Len(toks) : IntParse(toks[i]).ok
AllFloats(toks) == \A i \in 1..Len(toks) : FloatParse(toks[i]).ok

\* tuple(int(arg) for arg in args)
IntTuple(toks) == Indices([i \in 1..Len(toks) |-> IntParse(toks[i]).val])

\* The except branch: the last token is the unit, the others are floats.
UnitFallback(toks) ==
    LET unit == toks[Len(toks)]
        rest == SubSeq(toks, 1, Len(toks) - 1)
    IN  IF AllFloats(rest)
        THEN Measurement([i \in 1..Len(rest) |-> FloatParse(rest[i]).val], unit)
        ELSE Raised("ValueError", "float")

\* A variant that tries the unit reading before the integer reading.
compute_indexer_unit_first(a) ==
    IF a.kind = "None" THEN Indices(<<0>>)
    ELSE IF Len(a.toks) = 1
         THEN IF IntParse(a.toks[1]).ok THEN IntTuple(a.toks)
              ELSE Raised("ValueError", "int")
    ELSE IF Len(a.toks) >= 2 /\ ~IsRaised(UnitFallback(a.toks))
         THEN UnitFallback(a.toks)
    ELSE IF AllInts(a.toks) THEN IntTuple(a.toks)
    ELSE UnitFallback(a.toks)

\* A variant that takes the first token, not the last, as the unit.
compute_indexer_first_as_unit(a) ==
    IF a.kind = "None" THEN Indices(<<0>>)
    ELSE IF Len(a.toks) = 1
         THEN IF IntParse(a.toks[1]).ok THEN IntTuple(a.toks)
              ELSE Raised("ValueError", "int")
    ELSE IF AllInts(a.toks) THEN IntTuple(a.toks)
    ELSE LET rest == Tail(a.toks)
         IN  IF AllFloats(rest)
             THEN Measurement([i \in 1..Len(rest) |-> FloatParse(rest[i]).val],
                              a.toks[1])
             ELSE Raised("ValueError", "float")

\* A variant that drops the tokens float() rejects instead of failing.
compute_indexer_skips_bad(a) ==
    IF a.kind = "None" THEN Indices(<<0>>)
    ELSE IF Len(a.toks) = 1
         THEN IF IntParse(a.toks[1]).ok THEN IntTuple(a.toks)
              ELSE Raised("ValueError", "int")
    ELSE IF AllInts(a.toks) THEN IntTuple(a.toks)
    ELSE LET rest == SubSeq(a.toks, 1, Len(a.toks) - 1)
             good == SelectSeq(rest, LAMBDA t : FloatParse(t).ok)
         IN  Measurement([i \in 1..Len(good) |-> FloatParse(good[i]).val],
                         a.toks[Len(a.toks)])

\* A variant without the single-token case.
compute_indexer_no_single(a) ==
    IF a.kind = "None" THEN Indices(<<0>>)
    ELSE IF AllInts(a.toks) THEN IntTuple(a.toks)
    ELSE UnitFallback(a.toks)

\* src/support/interfaces.py, compute_indexer.
compute_indexer(a) ==
    IF a.kind = "None" THEN Indices(<<0>>)
    ELSE IF Len(a.toks) = 1
         THEN IF IntParse(a.toks[1]).ok THEN Indices(<<IntParse(a.toks[1]).val>>)
              ELSE Raised("ValueError", "int")
    ELSE IF AllInts(a.toks) THEN IntTuple(a.toks)
    ELSE UnitFallback(a.toks)

\* src/support/observers.py, compute_indexer (a copy of the one above).
observers_compute_indexer(a) ==
    IF a.kind = "None" THEN Indices(<<0>>)
    ELSE IF Len(a.toks) = 1
         THEN IF IntParse(a.toks[1]).ok THEN Indices(<<IntParse(a.toks[1]).val>>)
              ELSE Raised("ValueError", "int")
    ELSE IF AllInts(a.toks) THEN IntTuple(a.toks)
    ELSE UnitFallback(a.toks)

---------------------------------------------------------------------------
(* The get_* helpers and mhd-survey's plot_stream *)

\* quantity.measure(float(pair[0]), pair[1]) on a [value, unit] token pair.
MeasurePair(pair) ==
    IF FloatParse(pair.toks[1]).ok
    THEN Measurement(<<FloatParse(pair.toks[1]).val>>, pair.toks[2])
    ELSE Raised("ValueError", "float")

\* A variant that tests the shell for truth, so that shell 0 counts as absent.
get_location_truthy_shell(u) ==
    IF Truthy(u.shell) THEN u.shell
    ELSE IF Truthy(u.radius)
         THEN LET m == MeasurePair(u.radius)
              IN  IF IsRaised(m) THEN m ELSE withunit(m, <<"a", "u">>)
         ELSE PyInt(0)

\* src/support/observers.py, get_location.
get_location(u) ==
    IF u.shell.kind # "None" THEN u.shell
    ELSE IF Truthy(u.radius)
         THEN LET m == MeasurePair(u.radius)
              IN  IF IsRaised(m) THEN m ELSE withunit(m, <<"a", "u">>)
         ELSE PyInt(0)

\* src/support/observers.py and src/support/interfaces.py, get_species.
get_species(u) ==
    IF u.species.kind # "None" THEN u.species ELSE PyInt(0)

\* src/mhd-survey.py, get_time.
mhd_get_time(u) ==
    IF u.step.kind # "None" THEN u.step
    ELSE IF Truthy(u.time) THEN MeasurePair(u.time)
    ELSE PyNone

\* src/mhd-survey.py, get_location.
mhd_get_location(u) ==
    IF u.shell.kind # "None" THEN u.shell
    ELSE IF Truthy(u.radius)
         THEN LET m == MeasurePair(u.radius)
              IN  IF IsRaised(m) THEN m ELSE withunit(m, <<"a", "u">>)
         ELSE PyNone

\* The plot function plot_stream picked, and the constraint it was given.
Plot(f, c) == [kind |-> "plot", f |-> f, c |-> c]

\* A variant that tests the constraints for truth, so that step 0 or shell 0
\* counts as absent.
plot_stream_truthy(time, location) ==
    IF Truthy(location) /\ ~Truthy(time)
    THEN Plot("plot_at_location", location)
    ELSE IF Truthy(time) /\ ~Truthy(location)
    THEN Plot("plot_at_time", time)
    ELSE Raised("ValueError", "plot_stream")

\* src/mhd-survey.py, plot_stream: the choice between the two plots.
plot_stream(time, location) ==
    IF time.kind = "None" /\ location.kind # "None"
    THEN Plot("plot_at_location", location)
    ELSE IF location.kind = "None" /\ time.kind # "None"
    THEN Plot("plot_at_time", time)
    ELSE Raised("ValueError", "plot_stream")

\* src/mhd-survey.py, get_streams: the stream `num` when it is an integer,
\* every stream of the dataset otherwise.
mhd_get_streams(n, num) ==
    IF num.kind = "int" THEN <<num.n>> ELSE [i \in 1..n |-> i - 1]

\* plotdir / f"mhd-{stream.source.stem}.png".
MhdPath(stem) == [prefix |-> "mhd-", stem |-> stem, ending |-> ".png"]

\* src/mhd-survey.py, main, the loop: each stream is plotted by plot_stream
\* and its figure saved and closed.  The constraints are the same for every
\* stream, so plot_stream raises on the first stream or on none.  `result`
\* is what plot_stream raised, the plot the streams were given, or None when
\* there was no stream to plot; `saved` is the streams whose figure was saved.
mhd_loop(streams, plot) ==
    IF streams = <<>> THEN [result |-> PyNone, saved |-> <<>>]
    ELSE IF IsRaised(plot) THEN [result |-> plot, saved |-> <<>>]
    ELSE [result |-> plot, saved |-> streams]

\* src/mhd-survey.py, main, from the resolved constraints on: get_time and
\* get_location come before the loop, and what either raises ends main.
mhd_resolved(streams, time, location) ==
    IF IsRaised(time) THEN [result |-> time, saved |-> <<>>]
    ELSE IF IsRaised(location) THEN [result |-> location, saved |-> <<>>]
    ELSE mhd_loop(streams, plot_stream(time, location))

\* src/mhd-survey.py, main.
mhd_main(n, num, u) ==
    mhd_resolved(mhd_get_streams(n, num), mhd_get_time(u), mhd_get_location(u))

---------------------------------------------------------------------------
(* The resolver specification *)

TokenLists == UNION { [1..n -> TokenPool] : n \in 0..MaxTokens }

ArgInputs == {PyNone} \cup { PyList(t) : t \in TokenLists }

IntInputs == {PyNone, PyInt(0), PyInt(1), PyIntList(<<0>>)}

RadiusInputs ==
    {PyNone} \cup
    { PyList(<<v, <<"a", "u">>>>) : v \in {<<"0">>, <<"1", ".", "5">>, <<"a", "b", "c">>} }

TimeInputs == {PyNone, PyList(<< <<"0">>, <<"h">> >>), PyList(<< <<"2", ".", "0">>, <<"h">> >>)}

SpeciesInputs == {PyNone, PyInt(0), PyInt(1), PyStr(<<"H", "+">>)}

NoUser == [shell |-> PyNone, radius |-> PyNone, species |-> PyNone,
           step |-> PyNone, time |-> PyNone]

\* An empty figure.
NoFig == [curves |-> 0, seed |-> FALSE]

\* No coordinates.
NoPoint == [kind |-> "pending"]

NoSeries == [kind |-> "pending"]

NoObs == [kind |-> "none"]
NoFile == [kind |-> "none"]
NoHistory == [kind |-> "pending"]
NoUnits == [kind |-> "pending"]
NoProps == [kind |-> "pending"]
NoPanel == [kind |-> "pending"]

UserInputs ==
    [shell : IntInputs, radius : RadiusInputs, species : SpeciesInputs,
     step : IntInputs, time : TimeInputs]

\* A run starts with the arguments of one call: a token list for
\* compute_indexer, or a `user` dictionary for the get_* helpers.
Init ==
    /\ \/ args \in ArgInputs /\ user = NoUser
       \/ args = PyNone /\ user \in UserInputs
    /\ op = "none"
    /\ result = NoResult
    /\ dataset \in IF args = PyNone THEN 0..MaxStreams ELSE {0}
    /\ todo = <<>>
    /\ fig = NoFig
    /\ saved = <<>>
    /\ xyz = NoPoint
    /\ rtp = NoPoint
    /\ back = NoPoint
    /\ raw = NoPoint
    /\ series = NoSeries
    /\ xs = NoSeries
    /\ smoothed = NoSeries
    /\ obs = NoObs
    /\ file = NoFile
    /\ history = NoHistory
    /\ units = NoUnits
    /\ disk = {}
    /\ clock = 0
    /\ runs = 1
    /\ before = {}
    /\ terms = <<>>
    /\ props = NoProps
    /\ panel = NoPanel
    /\ markers = <<>>

CallComputeIndexer ==
    /\ op = "none"
    /\ op' = "interfaces.compute_indexer"
    /\ result' = compute_indexer(args)
    /\ UNCHANGED <<args, user, dataset, todo, fig, saved, xyz, rtp, back, raw, series, xs, smoothed, obs, file, history, units, disk, clock, runs, before, terms, props, panel, markers>>

CallObserversComputeIndexer ==
    /\ op = "none"
    /\ op' = "observers.compute_indexer"
    /\ result' = observers_compute_indexer(args)
    /\ UNCHANGED <<args, user, dataset, todo, fig, saved, xyz, rtp, back, raw, series, xs, smoothed, obs, file, history, units, disk, clock, runs, before, terms, props, panel, markers>>

CallGetLocation ==
    /\ op = "none"
    /\ op' = "observers.get_location"
    /\ result' = get_location(user)
    /\ UNCHANGED <<args, user, dataset, todo, fig, saved, xyz, rtp, back, raw, series, xs, smoothed, obs, file, history, units, disk, clock, runs, before, terms, props, panel, markers>>

CallGetSpecies ==
    /\ op = "none"
    /\ op' = "get_species"
    /\ result' = get_species(user)
    /\ UNCHANGED <<args, user, dataset, todo, fig, saved, xyz, rtp, back, raw, series, xs, smoothed, obs, file, history, units, disk, clock, runs, before, terms, props, panel, markers>>

\* What a run of mhd-survey left behind.
MhdRan(out) ==
    /\ result' = out.result
    /\ saved' = out.saved
    /\ disk' = disk \cup { MhdPath(out.saved[i]) : i \in 1..Len(out.saved) }
    /\ fig' = NoFig

\* src/mhd-survey.py, main, with -n absent or naming a stream of the dataset.
CallMhdMain ==
    /\ op = "none"
    /\ args = PyNone
    /\ op' = "mhd-survey.main"
    /\ \E num \in {PyNone} \cup { PyInt(k) : k \in 0..(dataset - 1) } :
        /\ args' = num
        /\ MhdRan(mhd_main(dataset, num, user))
    /\ UNCHANGED <<user, dataset, todo, xyz, rtp, back, raw, series, xs, smoothed, obs, file, history, units, clock, runs, before, terms, props, panel, markers>>

\* mhd-survey has run, and has called plot_stream on a stream.
PlotStreamCalled ==
    /\ op = "mhd-survey.main"
    /\ mhd_get_streams(dataset, args) # <<>>
    /\ ~IsRaised(mhd_get_time(user))
    /\ ~IsRaised(mhd_get_location(user))

Next ==
    \/ CallComputeIndexer
    \/ CallObserversComputeIndexer
    \/ CallGetLocation
    \/ CallGetSpecies
    \/ CallMhdMain

Spec == Init /\ [][Next]_vars

---------------------------------------------------------------------------
(* Claims about the argument resolver *)

IndexerCalled ==
    op \in {"interfaces.compute_indexer", "observers.compute_indexer"}

\* The float values of a token list, in order.
FloatsOf(toks) == [i \in 1..Len(toks) |-> FloatParse(toks[i]).val]

\* The argument is a list of at least two tokens, not all of them integers.
FallsBack ==
    /\ args.kind = "list"
    /\ Len(args.toks) >= 2
    /\ ~AllInts(args.toks)

Preceding == SubSeq(args.toks, 1, Len(args.toks) - 1)

\* C1: compute_indexer returns the default index tuple (0,) both when its
\* argument is None and when it is an empty token list.
C1_DefaultOnNoneOrEmpty ==
    (IndexerCalled /\ (args.kind = "None" \/ (args.kind = "list" /\ args.toks = <<>>)))
        => result = Indices(<<0>>)

\* C2: for a non-empty token list whose tokens all parse as integers, the
\* result is the tuple of those integers, same length and same order; the
\* last token is not taken as a unit.
C2_AllIntegersAreIndices ==
    (IndexerCalled /\ args.kind = "list" /\ args.toks # <<>> /\ AllInts(args.toks))
        => /\ result.kind = "Indices"
           /\ Len(result.idx) = Len(args.toks)
           /\ \A i \in 1..Len(args.toks) : result.idx[i] = IntParse(args.toks[i]).val

C2_Witness ==
    /\ IndexerCalled
    /\ args = PyList(<< <<"3">>, <<"-", "1">>, <<"0">> >>)
    /\ result = Indices(<<3, -1, 0>>)

\* C3 as stated: for every list of two or more tokens, not all integers,
\* the result is a measurement of the floats of the tokens before the last,
\* tagged with the last token.
C3_FallbackAlwaysMeasures ==
    (IndexerCalled /\ FallsBack)
        => result = Measurement(FloatsOf(Preceding), args.toks[Len(args.toks)])

\* C3, amended: for every list of two or more tokens, not all integers, in
\* which every token before the last parses as a float, the result is a
\* measurement of the floats of those tokens, in order, tagged with the last
\* token as its unit.
C3_FallbackMeasuresFloats ==
    (IndexerCalled /\ FallsBack /\ AllFloats(Preceding))
        => /\ result.kind = "Measurement"
           /\ result.unit = args.toks[Len(args.toks)]
           /\ Len(result.values) = Len(args.toks) - 1
           /\ \A i \in 1..(Len(args.toks) - 1) :
                  result.values[i] = FloatParse(args.toks[i]).val

C3_Witness ==
    /\ IndexerCalled
    /\ args = PyList(<< <<"1", ".", "5">>, <<"2", ".", "0">>, <<"a", "u">> >>)
    /\ result = Measurement(<<[m |-> 15, e |-> -1], [m |-> 2, e |-> 0]>>, <<"a", "u">>)

\* C4 as stated: when the resolver falls back to the unit reading and a token
\* before the last is no float, the call fails with an ArgumentError.
C4_BadFloatRaisesArgumentError ==
    (IndexerCalled /\ FallsBack /\ ~AllFloats(Preceding))
        => (IsRaised(result) /\ result.cls = "ArgumentError")

\* C4, amended: when the resolver falls back to the unit reading and a token
\* before the last is no float, the call fails with the ValueError of
\* float() and returns no result.
C4_BadFloatRaisesValueError ==
    (IndexerCalled /\ FallsBack /\ ~AllFloats(Preceding))
        => result = Raised("ValueError", "float")

C4_Witness ==
    /\ IndexerCalled
    /\ args = PyList(<< <<"1", ".", "5">>, <<"a", "b", "c">>, <<"a", "u">> >>)
    /\ result = Raised("ValueError", "float")

\* C5: for a single-token list the result is (n,) when the token parses as
\* the integer n, and a parse error otherwise; a single token is never a unit
\* and never a float value.
C5_SingleTokenIsIntegerOrError ==
    (IndexerCalled /\ args.kind = "list" /\ Len(args.toks) = 1)
        => IF IntParse(args.toks[1]).ok
           THEN result = Indices(<<IntParse(args.toks[1]).val>>)
           ELSE result = Raised("ValueError", "int")

C5_Witness ==
    /\ IndexerCalled
    /\ args = PyList(<< <<"1", ".", "5">> >>)
    /\ result = Raised("ValueError", "int")

\* C6: an explicit zero is the value 0, never "not provided":
\* compute_indexer(['0']) is (0,); get_location returns shell 0 even when a
\* radius is supplied too; get_species returns 0 for species 0; and
\* mhd-survey's plot_stream with time 0 and no location, or location 0 and no
\* time, picks the matching plot without raising.
C6_ZeroIsAValue ==
    /\ (IndexerCalled /\ args = PyList(<< <<"0">> >>)) => result = Indices(<<0>>)
    /\ (op = "observers.get_location" /\ user.shell = PyInt(0)) => result = PyInt(0)
    /\ (op = "get_species" /\ user.species = PyInt(0)) => result = PyInt(0)
    /\ (/\ PlotStreamCalled
        /\ user.step = PyInt(0) /\ user.shell = PyNone /\ user.radius = PyNone)
           => result = Plot("plot_at_time", PyInt(0))
    /\ (/\ PlotStreamCalled
        /\ user.shell = PyInt(0) /\ user.step = PyNone /\ user.time = PyNone)
           => result = Plot("plot_at_location", PyInt(0))

C6_Witness ==
    /\ op = "observers.get_location"
    /\ user.shell = PyInt(0)
    /\ user.radius = PyList(<< <<"1", ".", "5">>, <<"a", "u">> >>)
    /\ result = PyInt(0)

---------------------------------------------------------------------------
(* The flux-versus-energy plotting routines *)

\* len() of a resolved indexer: its indices or its measured values.
NValues(r) == IF r.kind = "Indices" THEN Len(r.idx) ELSE Len(r.values)

\* src/support/observers.py, get_streams: the stream `num` when it is an
\* integer, every stream of the dataset otherwise.
get_streams(n, num) ==
    IF num.kind = "int" THEN <<num.n>> ELSE [i \in 1..n |-> i - 1]

\* src/support/observers.py, get_times and get_locations.
observers_get_times(u) == observers_compute_indexer(u.time)
observers_get_locations(u) == observers_compute_indexer(u.location)

\* src/support/interfaces.py, get_times and get_locations.
get_times(u) == compute_indexer(u.time)
get_locations(u) == compute_indexer(u.location)

\* What a plotting routine leaves behind: the exception it raised (PyNone
\* when it returned), the figure, and whether it saved the figure itself.
Outcome(err, curves, seed, wrote) ==
    [err |-> err, fig |-> [curves |-> curves, seed |-> seed], wrote |-> wrote]

\* src/stream-flux-energy.py, stream_flux, from the resolved times and
\* locations on: one branch per shape, an error for every other shape.
stream_flux_curves(times, locations, u) ==
    IF IsRaised(times) THEN Outcome(times, 0, FALSE, FALSE)
    ELSE IF IsRaised(locations) THEN Outcome(locations, 0, FALSE, FALSE)
    ELSE IF NValues(times) = 1 /\ NValues(locations) = 1
    THEN Outcome(PyNone, 1, u.show_initial, FALSE)
    ELSE IF NValues(times) > 1 /\ NValues(locations) = 1
    THEN Outcome(PyNone, NValues(times), u.show_initial, FALSE)
    ELSE IF NValues(locations) > 1 /\ NValues(times) = 1
    THEN Outcome(PyNone, NValues(locations), u.show_initial, FALSE)
    ELSE Outcome(Raised("ValueError", "multi-valued"), 0, FALSE, FALSE)

\* src/stream-flux-energy.py, stream_flux.
stream_flux(u) ==
    stream_flux_curves(observers_get_times(u), observers_get_locations(u), u)

\* src/support/interfaces.py, get_location, as make_title uses it: the
\* first of the locations, which an empty tuple does not have.
title_location(locations) ==
    IF IsRaised(locations) THEN locations
    ELSE IF NValues(locations) = 0 THEN Raised("IndexError", "get_location")
    ELSE PyNone

\* src/support/plots.py, make_title, the species: an integer or a string.
title_species(species) ==
    IF species.kind \in {"int", "str"} THEN PyNone ELSE Raised("TypeError", "species")

\* src/support/plots.py, make_title: the exception it raises, or None.  With
\* 'time' among the keys and in `user` it calls interfaces.get_time, which
\* the module does not define; then it reads the location and the species
\* (a key that `user` does not hold reads as None, which raises nothing).
make_title(u, keys) ==
    IF "time" \in keys /\ u.hasTime
    THEN Raised("AttributeError", "make_title")
    ELSE IF "location" \in keys /\ IsRaised(title_location(get_locations(u)))
    THEN title_location(get_locations(u))
    ELSE IF "species" \in keys
    THEN title_species(get_species(u))
    ELSE PyNone

\* src/support/plots.py, flux_energy, from the resolved times and locations
\* on.
flux_energy_curves(times, locations, u) ==
    IF IsRaised(times) THEN Outcome(times, 0, FALSE, FALSE)
    ELSE IF IsRaised(locations) THEN Outcome(locations, 0, FALSE, FALSE)
    ELSE IF NValues(times) > 1 /\ NValues(locations) > 1
    THEN Outcome(Raised("ValueError", "multi-valued"), 0, FALSE, FALSE)
    ELSE IF NValues(times) = 1 /\ NValues(locations) > 1
    THEN Outcome(make_title(u, {"time", "species"}), NValues(locations), FALSE, FALSE)
    ELSE IF NValues(times) > 1 /\ NValues(locations) = 1
    THEN Outcome(make_title(u, {"location", "species"}), NValues(times), FALSE, FALSE)
    ELSE IF NValues(times) = 0 \/ NValues(locations) = 0
    THEN Outcome(Raised("IndexError", "flux_energy"), 0, FALSE, FALSE)
    ELSE Outcome(make_title(u, {"time", "location", "species"}), 1, FALSE, FALSE)

\* src/support/plots.py, flux_energy.
flux_energy(u) == flux_energy_curves(get_times(u), get_locations(u), u)

\* src/plot-stream-flux.py, main: `time` and `radius` are the lists of floats
\* argparse built (None when the option is absent).  One array is plotted
\* per label.
plot_stream_flux_main(u) ==
    IF u.time.kind = "None" \/ u.radius.kind = "None"
    THEN Outcome(Raised("TypeError", "len"), 0, FALSE, FALSE)
    ELSE LET ntimes == Len(u.time.toks)
             nradii == Len(u.radius.toks)
             labels == IF nradii > 1 THEN nradii ELSE ntimes
         IN  IF ntimes > 1 /\ nradii > 1
             THEN Outcome(Raised("ValueError", "multi-valued"), 0, FALSE, FALSE)
             ELSE IF (nradii > 1 /\ ntimes = 0) \/ (nradii <= 1 /\ nradii = 0)
             THEN Outcome(Raised("IndexError", "main"), labels, u.show_initial, FALSE)
             ELSE Outcome(PyNone, labels, u.show_initial, TRUE)

\* src/plot-stream-flux.py, main: the units of the energy and of the flux.
plot_stream_flux_units ==
    [energy |-> PyStr(<<"M", "e", "V">>),
     flux |-> PyStr(<<"c", "m", "^", "-", "2", " ", "s", "^", "-", "1", " ",
                      "s", "r", "^", "-", "1", " ",
                      "(", "M", "e", "V", "/", "n", "u", "c", ")", "^", "-", "1">>)]

\* src/plot-stream-flux.py, main: plotdir / f'stream{number}_flux-{name}.png',
\* named after the first time (a float) when several radii are given and
\* after the first radius otherwise.
plot_stream_flux_path(number, u) ==
    [prefix |-> "stream", stem |-> number,
     ending |-> IF Len(u.radius.toks) > 1
                THEN <<"_flux-t", FloatParse(u.time.toks[1]).val, "h.png">>
                ELSE <<"_flux-r", FloatParse(u.radius.toks[1]).val, "au.png">>]

\* The tokens the flux scripts are given: an integer, a decimal, a unit.
FluxPool == { <<"0">>, <<"1", ".", "5">>, <<"a", "u">> }
FloatPool == { <<"0">>, <<"1", ".", "5">> }

FluxArgs == {PyNone} \cup { PyList(t) : t \in UNION { [1..n -> FluxPool] : n \in 0..MaxTokens } }
FloatArgs == {PyNone} \cup { PyList(t) : t \in UNION { [1..n -> FloatPool] : n \in 0..MaxTokens } }

\* The `user` dictionary of a flux script.  An absent key reads as None.
FluxUser(time, location, radius, hasTime, show_initial, num) ==
    [time |-> time, location |-> location, radius |-> radius,
     species |-> PyNone, shell |-> PyNone, step |-> PyNone,
     hasTime |-> hasTime, show_initial |-> show_initial, num |-> num]

\* A run is given times and locations (as tokens), or times and radii (as
\* floats); argparse stores every option it declares, so a given time is a
\* key of `user`.  -n names a stream of the dataset, or is absent.  The
\* species is absent, an index or a symbol.
FluxUsers ==
    { FluxUser(x[1], x[2], PyNone, x[3], x[4], x[5]) :
        x \in { y \in FluxArgs \X FluxArgs \X BOOLEAN \X BOOLEAN
                        \X ({PyNone} \cup { PyInt(k) : k \in 0..(MaxStreams - 1) }) :
                  y[1].kind # "None" => y[3] } }
    \cup
    { FluxUser(x[1], PyNone, x[2], x[3], x[4], x[5]) :
        x \in { y \in FloatArgs \X FloatArgs \X BOOLEAN \X BOOLEAN
                        \X ({PyNone} \cup { PyInt(k) : k \in 0..(MaxStreams - 1) }) :
                  y[1].kind # "None" => y[3] } }
    \cup
    { [FluxUser(PyNone, PyNone, PyNone, FALSE, FALSE, PyNone) EXCEPT !.species = sp] :
        sp \in {PyInt(1), PyStr(<<"H", "+">>)} }

\* UNITS of src/support/interfaces.py, src/support/observers.py and
\* src/stream-survey.py: the default unit of each quantity.
UNITS ==
    [q \in {"time", "energy", "flux", "fluence", "integral flux"} |->
        CASE q = "time" -> PyStr(<<"h", "o", "u", "r">>)
          [] q = "energy" -> PyStr(<<"M", "e", "V">>)
          [] q = "flux" -> PyStr(<<"1", " ", "/", " ", "(", "c", "m", "^", "2", " ", "s", " ", "s", "r", " ", "M", "e", "V", "/", "n", "u", "c", ")">>)
          [] q = "fluence" -> PyStr(<<"1", " ", "/", " ", "(", "c", "m", "^", "2", " ", "s", "r", " ", "M", "e", "V", "/", "n", "u", "c", ")">>)
          [] q = "integral flux" -> PyStr(<<"1", " ", "/", " ", "(", "c", "m", "^", "2", " ", "s", " ", "s", "r", ")">>)]

\* f'{k}_unit'.
UnitOption(k) ==
    CASE k = "time" -> "time_unit"
      [] k = "energy" -> "energy_unit"
      [] k = "flux" -> "flux_unit"
      [] k = "fluence" -> "fluence_unit"
      [] k = "integral flux" -> "integral flux_unit"

\* user.get(key): None for a key that `user` does not hold.
Get(u, key) == IF key \in DOMAIN u THEN u[key] ELSE PyNone

\* user.get(key, default).
GetOr(u, key, default) == IF key \in DOMAIN u THEN u[key] ELSE default

\* user.get(f'{k}_unit') or u.
OptionOr(given, default) == IF Truthy(given) THEN given ELSE default

\* A table of units that is the defaults, whatever the user gave.
get_units_defaults_only(u) == [k \in DOMAIN UNITS |-> UNITS[k]]

\* src/support/interfaces.py, get_units.
get_units(u) == [k \in DOMAIN UNITS |-> OptionOr(Get(u, UnitOption(k)), UNITS[k])]

\* src/support/plots.py, flux_energy: the units are computed, and the flux
\* and the energies expressed in them, once the times and the locations
\* have resolved.
flux_energy_units(times, locations, u, old) ==
    IF IsRaised(times) \/ IsRaised(locations) THEN old ELSE get_units(u)

\* src/stream-flux-energy.py, stream_flux: units = {k: user.get(f'{k}_unit')
\* or u for k, u in observers.UNITS.items()}.
stream_flux_units(u) == [k \in DOMAIN UNITS |-> OptionOr(Get(u, UnitOption(k)), UNITS[k])]

\* The units a call has used once it is past the line that computes them:
\* an indexer that raises, raises before it.
UnitsAfter(err, computed, old) ==
    IF IsRaised(err) /\ err.site # "multi-valued" THEN old ELSE computed

\* plotdir / f"{stream.source.stem}{ending}".
StreamPath(stem, ending) == [stem |-> stem, ending |-> ending]

InitFlux ==
    /\ op = "none"
    /\ args = PyNone
    /\ result = NoResult
    /\ dataset \in 1..MaxStreams
    /\ user \in FluxUsers
    /\ user.num.kind = "int" => user.num.n < dataset
    /\ todo = <<>>
    /\ fig = NoFig
    /\ saved = <<>>
    /\ xyz = NoPoint
    /\ rtp = NoPoint
    /\ back = NoPoint
    /\ raw = NoPoint
    /\ series = NoSeries
    /\ xs = NoSeries
    /\ smoothed = NoSeries
    /\ obs = NoObs
    /\ file = NoFile
    /\ history = NoHistory
    /\ units = NoUnits
    /\ disk = {}
    /\ clock = 0
    /\ runs = 1
    /\ before = {}
    /\ terms = <<>>
    /\ props = NoProps
    /\ panel = NoPanel
    /\ markers = <<>>

\* src/stream-flux-energy.py, main: the streams are selected.
StreamFluxEnergyStart ==
    /\ op = "none"
    /\ op' = "stream-flux-energy.loop"
    /\ todo' = get_streams(dataset, user.num)
    /\ UNCHANGED <<args, user, result, dataset, fig, saved, xyz, rtp, back, raw, series, xs, smoothed, obs, file, history, units, disk, clock, runs, before, terms, props, panel, markers>>

\* The figure and the exception a plotting routine left behind.
Plotted(out) ==
    /\ fig' = out.fig
    /\ result' = out.err

\* src/stream-flux-energy.py, main: stream_flux on the next stream.
StreamFluxEnergyPlot ==
    /\ op = "stream-flux-energy.loop"
    /\ todo # <<>>
    /\ Plotted(stream_flux(user))
    /\ units' = UnitsAfter(result', stream_flux_units(user), units)
    /\ op' = IF IsRaised(result') THEN "stream-flux-energy.error"
             ELSE "stream-flux-energy.plotted"
    /\ UNCHANGED <<args, user, dataset, todo, saved, xyz, rtp, back, raw, series, xs, smoothed, obs, file, history, disk, clock, runs, before, terms, props, panel, markers>>

\* src/stream-flux-energy.py, main: savefig and close.
StreamFluxEnergySave ==
    /\ op = "stream-flux-energy.plotted"
    /\ saved' = Append(saved, Head(todo))
    /\ todo' = Tail(todo)
    /\ fig' = NoFig
    /\ result' = NoResult
    /\ disk' = disk \cup {StreamPath(Head(todo), "-flux-energy.png")}
    /\ op' = IF Tail(todo) = <<>> THEN "stream-flux-energy.done"
             ELSE "stream-flux-energy.loop"
    /\ UNCHANGED <<args, user, dataset, xyz, rtp, back, raw, series, xs, smoothed, obs, file, history, units, clock, runs, before, terms, props, panel, markers>>

\* src/support/plots.py, flux_energy on one stream.
PlotsFluxEnergy ==
    /\ op = "none"
    /\ op' = "plots.flux_energy"
    /\ Plotted(flux_energy(user))
    /\ units' = flux_energy_units(get_times(user), get_locations(user), user, units)
    /\ UNCHANGED <<args, user, dataset, todo, saved, xyz, rtp, back, raw, series, xs, smoothed, obs, file, history, disk, clock, runs, before, terms, props, panel, markers>>

\* What plot-stream-flux's main left behind, its own savefig included.
PlottedAndSaved(out, u) ==
    /\ Plotted(out)
    /\ saved' = IF out.wrote THEN Append(saved, 0) ELSE saved
    /\ disk' = IF out.wrote THEN disk \cup {plot_stream_flux_path(0, u)} ELSE disk
    /\ units' = IF IsRaised(out.err) /\ out.err.cls \in {"TypeError", "ValueError"}
                THEN units ELSE plot_stream_flux_units

\* src/plot-stream-flux.py, main, on stream 0.
PlotStreamFluxMain ==
    /\ op = "none"
    /\ op' = "plot-stream-flux.main"
    /\ PlottedAndSaved(plot_stream_flux_main(user), user)
    /\ UNCHANGED <<args, user, dataset, todo, xyz, rtp, back, raw, series, xs, smoothed, obs, file, history, clock, runs, before, terms, props, panel, markers>>

NextFlux ==
    \/ StreamFluxEnergyStart
    \/ StreamFluxEnergyPlot
    \/ StreamFluxEnergySave
    \/ PlotsFluxEnergy
    \/ PlotStreamFluxMain

SpecFlux == InitFlux /\ [][NextFlux]_vars

---------------------------------------------------------------------------
(* Claims about the flux-versus-energy routines *)

\* A plotting routine has run on the current figure.
FluxPlotted ==
    op \in {"stream-flux-energy.plotted", "stream-flux-energy.error",
            "plots.flux_energy", "plot-stream-flux.main"}

\* The resolved times and locations of the routine that ran, as counts; -1
\* when the routine had none to count (a resolver error, an absent list).
CountOf(v) ==
    IF v.kind = "list" THEN Len(v.toks)
    ELSE IF v.kind \in {"Indices", "Measurement"} THEN NValues(v)
    ELSE -1

TimesCount ==
    IF op = "plot-stream-flux.main" THEN CountOf(user.time)
    ELSE IF op = "plots.flux_energy" THEN CountOf(get_times(user))
    ELSE CountOf(observers_get_times(user))

LocationsCount ==
    IF op = "plot-stream-flux.main" THEN CountOf(user.radius)
    ELSE IF op = "plots.flux_energy" THEN CountOf(get_locations(user))
    ELSE CountOf(observers_get_locations(user))

\* C7: in every flux-versus-energy routine, when the resolved times and the
\* resolved locations both hold more than one value the call fails with a
\* ValueError before any curve is plotted and before any file is saved; when
\* at most one of them is multi-valued no such error is raised and one curve
\* is plotted per value of the multi-valued parameter.
C7_MultiValuedGuard ==
    (FluxPlotted /\ TimesCount >= 0 /\ LocationsCount >= 0)
        => IF TimesCount > 1 /\ LocationsCount > 1
           THEN /\ result = Raised("ValueError", "multi-valued")
                /\ fig.curves = 0
                /\ saved = <<>>
           ELSE /\ result # Raised("ValueError", "multi-valued")
                /\ TimesCount > 1 => fig.curves = TimesCount
                /\ LocationsCount > 1 => fig.curves = LocationsCount

---------------------------------------------------------------------------
(* Floating-point numbers of the coordinate transforms *)

\* A float is held on two scales: its size as a whole number v of 1/Scale,
\* and, where v is 0, what is left of it as a whole number e of
\* epsilon/EpsFx.  An angle is q quarter turns and such a float, so that the
\* floats next to a multiple of pi/2 are told apart: numpy.pi is not pi, and
\* the sine of it is not 0.
Scale == 10 ^ 4

\* numpy.pi, in units of 1/Scale.
PiFx == 31416
HalfPi == PiFx \div 2
TwoPi == 2 * PiFx

\* sys.float_info.epsilon, 2^-52, in the units of the small scale.
EpsFx == 10000

\* pi - numpy.pi, 1.2246e-16, in the units of the small scale; so are
\* pi/2 - 0.5*numpy.pi, 3*pi/2 - 1.5*numpy.pi and 2*pi - 2*numpy.pi.
PiErr == 5515

\* The largest coordinate of a point, in half units.
MaxCoord == 4

\* A finite float or angle, and nan.
Angle(q, v, e) == [nan |-> FALSE, q |-> q, v |-> v, e |-> e]
F(v) == Angle(0, v, 0)
Micro(e) == Angle(0, 0, e)
NaN == [nan |-> TRUE, q |-> 0, v |-> 0, e |-> 0]

Abs(a) == IF a < 0 THEN -a ELSE a

\* value == 0 and value < 0, which are False of nan.
IsZero(a) == ~a.nan /\ a.q = 0 /\ a.v = 0 /\ a.e = 0
IsNegative(a) ==
    ~a.nan /\ (a.q < 0 \/ (a.q = 0 /\ (a.v < 0 \/ (a.v = 0 /\ a.e < 0))))

\* numpy.abs(value) < sys.float_info.epsilon.
BelowEpsilon(a) == ~a.nan /\ a.q = 0 /\ a.v = 0 /\ Abs(a.e) < EpsFx

Neg(a) == IF a.nan THEN a ELSE Angle(-a.q, -a.v, -a.e)

\* a / b rounded to the nearest whole number (b > 0).
RoundDiv(a, b) ==
    IF a >= 0 THEN (2 * a + b) \div (2 * b) ELSE -((2 * (-a) + b) \div (2 * b))

\* The product of two fixed-point numbers.
MulFx(a, b) == RoundDiv(a * b, Scale)

\* The largest f in lo..hi with f * f <= n.
RECURSIVE SqrtSearch(_, _, _)
SqrtSearch(n, lo, hi) ==
    IF lo = hi THEN lo
    ELSE IF ((lo + hi + 1) \div 2) * ((lo + hi + 1) \div 2) <= n
         THEN SqrtSearch(n, (lo + hi + 1) \div 2, hi)
         ELSE SqrtSearch(n, lo, ((lo + hi + 1) \div 2) - 1)

RoundUpFrom(n, f) == IF n - f * f > f THEN f + 1 ELSE f

\* numpy.sqrt of n / Scale^2, in units of 1/Scale, rounded to nearest.
SqrtFx(n) == RoundUpFrom(n, SqrtSearch(n, 0, 46340))

\* The sum a - a^3/3! + a^5/5! - ... from the term `term` of order k on.
RECURSIVE SinSeries(_, _, _)
SinSeries(a, term, k) ==
    IF term = 0 THEN 0
    ELSE term + SinSeries(a, -RoundDiv(MulFx(MulFx(term, a), a), (k + 1) * (k + 2)), k + 2)

\* sin on [-pi/2, pi/2].
SinSmall(a) == SinSeries(a, a, 1)

\* a brought into [0, 2 pi).
Mod2Pi(a) == a % TwoPi

\* sin of an angle in [0, 2 pi).
SinTurn(a) ==
    IF a <= HalfPi THEN SinSmall(a)
    ELSE IF a <= PiFx + HalfPi THEN SinSmall(PiFx - a)
    ELSE SinSmall(a - TwoPi)

\* sin and cos of an angle away from every multiple of pi/2.
SinFx(a) == SinTurn(Mod2Pi(a))
CosFx(a) == SinTurn(Mod2Pi(a + HalfPi))

\* numpy.sin and numpy.cos: next to a multiple of pi/2 one of them is 1 or
\* -1 and the other is what the angle is off by.
Sin(a) ==
    IF a.nan THEN NaN
    ELSE IF a.v # 0 THEN F(SinFx(a.q * HalfPi + a.v))
    ELSE CASE a.q % 4 = 0 -> Micro(a.e)
           [] a.q % 4 = 1 -> F(Scale)
           [] a.q % 4 = 2 -> Micro(-a.e)
           [] a.q % 4 = 3 -> F(-Scale)

Cos(a) ==
    IF a.nan THEN NaN
    ELSE IF a.v # 0 THEN F(CosFx(a.q * HalfPi + a.v))
    ELSE CASE a.q % 4 = 0 -> F(Scale)
           [] a.q % 4 = 1 -> Micro(-a.e)
           [] a.q % 4 = 2 -> F(-Scale)
           [] a.q % 4 = 3 -> Micro(a.e)

\* a * b: the product of two small numbers is below every unit.
Mul(a, b) ==
    IF a.nan \/ b.nan THEN NaN
    ELSE IF a.v # 0 /\ b.v # 0 THEN F(MulFx(a.v, b.v))
    ELSE IF a.v # 0 THEN Micro(RoundDiv(a.v * b.e, Scale))
    ELSE IF b.v # 0 THEN Micro(RoundDiv(a.e * b.v, Scale))
    ELSE F(0)

\* The spacing of the floats next to q quarter turns (q > 0), and what the
\* float nearest to q quarter turns is off by.
Ulp(q) == IF q = 1 THEN EpsFx ELSE IF q = 2 THEN 2 * EpsFx ELSE 4 * EpsFx
Off(q) == -RoundDiv(q * PiErr, 2)

\* The float nearest to q quarter turns and d (q > 0).
Nearest(q, d) == Angle(q, 0, Off(q) + Ulp(q) * RoundDiv(d - Off(q), Ulp(q)))

\* 0.5*numpy.pi and numpy.pi.
HalfPiF == Nearest(1, 0)
PiF == Nearest(2, 0)

\* The sum u - u^3/3 + u^5/5 - ... from the power `pow` of order k on.
RECURSIVE AtanSeries(_, _, _)
AtanSeries(u, pow, k) ==
    IF RoundDiv(pow, k) = 0 THEN 0
    ELSE RoundDiv(pow, k) - AtanSeries(u, MulFx(MulFx(pow, u), u), k + 2)

\* arctan on [0, 1]: above tan(pi/8) by arctan(t) = pi/4 + arctan((t-1)/(t+1)).
AtanUnit(t) ==
    IF 2 * t <= Scale THEN AtanSeries(t, t, 1)
    ELSE (HalfPi \div 2) + AtanSeries(RoundDiv((t - Scale) * Scale, t + Scale),
                                      RoundDiv((t - Scale) * Scale, t + Scale), 1)

\* arctan(b / a) for a > 0 and b >= 0, in [0, pi/2).
AtanRatio(b, a) ==
    IF b <= a THEN AtanUnit(RoundDiv(b * Scale, a))
    ELSE HalfPi - AtanUnit(RoundDiv(a * Scale, b))

\* arctan2(y, x) of two numbers of one scale, in (-pi, pi].
Arctan2Fx(y, x) ==
    IF x = 0 THEN (IF y > 0 THEN HalfPi ELSE IF y < 0 THEN -HalfPi ELSE 0)
    ELSE IF x > 0 THEN (IF y >= 0 THEN AtanRatio(y, x) ELSE -AtanRatio(-y, x))
    ELSE (IF y >= 0 THEN PiFx - AtanRatio(y, -x) ELSE AtanRatio(-y, -x) - PiFx)

\* arctan2(y, x) where y is y1 and a smaller y0, and x likewise: an angle
\* away from the axes when neither y1 nor x1 is 0, and next to an axis
\* otherwise.
Arctan2Of(y1, y0, x1, x0) ==
    IF x1 # 0 /\ y1 # 0 THEN F(Arctan2Fx(y1, x1))
    ELSE IF x1 > 0 THEN Micro(RoundDiv(y0 * Scale, x1))
    ELSE IF x1 < 0
    THEN (IF y0 >= 0 THEN Nearest(2, -RoundDiv(y0 * Scale, -x1))
          ELSE Neg(Nearest(2, -RoundDiv((-y0) * Scale, -x1))))
    ELSE IF y1 > 0 THEN Nearest(1, -RoundDiv(x0 * Scale, y1))
    ELSE IF y1 < 0 THEN Neg(Nearest(1, -RoundDiv(x0 * Scale, -y1)))
    ELSE F(0)

\* numpy.arctan2(y, x), in (-pi, pi].
Arctan2(y, x) ==
    IF y.nan \/ x.nan THEN NaN
    ELSE IF y.v = 0 /\ x.v = 0 THEN Arctan2Of(y.e, 0, x.e, 0)
    ELSE Arctan2Of(y.v, y.e, x.v, x.e)

\* numpy.arccos(c) for a finite c: nan outside [-1, 1], 0 at 1, numpy.pi at
\* -1, and next to pi/2 for a c next to 0.
Arccos(c) ==
    IF Abs(c.v) > Scale THEN NaN
    ELSE IF c.v = Scale THEN F(0)
    ELSE IF c.v = -Scale THEN PiF
    ELSE IF c.v = 0 THEN Nearest(1, -c.e)
    ELSE F(Arctan2Fx(SqrtFx(Scale * Scale - c.v * c.v), c.v))

\* z / r for r > 0.
Ratio(z, r) ==
    IF r.v = 0 THEN F(RoundDiv(z.e * Scale, r.e))
    ELSE IF z.v # 0 THEN F(RoundDiv(z.v * Scale, r.v))
    ELSE Micro(RoundDiv(z.e * Scale, r.v))

\* numpy.arccos(z / r): 0/0 is nan and z/0 is infinite, and arccos of either
\* is nan.
ArccosRatio(z, r) ==
    IF z.nan \/ r.nan \/ IsZero(r) THEN NaN ELSE Arccos(Ratio(z, r))

---------------------------------------------------------------------------
(* xyz2rtp and rtp2xyz, on one element of their arrays *)

\* src/support/numerics.py, zero_floor (both of its branches, the array one
\* and the scalar one, do this to a value).
zero_floor(value) == IF BelowEpsilon(value) THEN F(0) ELSE value

\* r: the root of the sum of squares, floored to zero below epsilon.
FloorRadius(r) == IF BelowEpsilon(r) THEN F(0) ELSE r

\* numpy.sqrt(x*x + y*y + z*z), before the flooring: of the size of the
\* coordinates when one of them has a size, small when all are small.
RootOfSquares(p) ==
    IF p.x.v = 0 /\ p.y.v = 0 /\ p.z.v = 0
    THEN Micro(SqrtFx(p.x.e * p.x.e + p.y.e * p.y.e + p.z.e * p.z.e))
    ELSE F(SqrtFx(p.x.v * p.x.v + p.y.v * p.y.v + p.z.v * p.z.v))

Radius(p) == FloorRadius(RootOfSquares(p))

\* A polar angle left as arccos(z / r) gives it, with no value set at r = 0.
Polar_unset_at_zero(p, r) == ArccosRatio(p.z, r)

\* t: arccos(z / r), and 0 where r is 0.
Polar(p, r) == IF IsZero(r) THEN F(0) ELSE ArccosRatio(p.z, r)

\* p: arctan2(y, x), raised by 2*numpy.pi where negative; the sum is the
\* float nearest to it.
Wrapped(a) ==
    IF ~IsNegative(a) THEN a
    ELSE IF a.v # 0 THEN F(a.v + TwoPi)
    ELSE Nearest(a.q + 4, a.e - 2 * PiErr)

\* p on the axis x = 0: +0.5*numpy.pi for y >= 0, then -0.5*numpy.pi for
\* y < 0.
Azimuth(p, a) ==
    IF IsZero(p.x) /\ IsNegative(p.y) THEN Neg(HalfPiF)
    ELSE IF IsZero(p.x) /\ ~IsNegative(p.y) THEN HalfPiF
    ELSE a

Spherical(p, r) ==
    [r |-> r, t |-> Polar(p, r), p |-> Azimuth(p, Wrapped(Arctan2(p.y, p.x)))]

\* src/support/numerics.py, xyz2rtp, on one element of its arrays.
xyz2rtp(p) == Spherical(p, Radius(p))

\* A transform back whose y takes the cosine of p.
Cartesian_y_by_cosine(r, t, p) ==
    [x |-> zero_floor(Mul(Mul(r, Sin(t)), Cos(p))),
     y |-> zero_floor(Mul(Mul(r, Sin(t)), Cos(p))),
     z |-> zero_floor(Mul(r, Cos(t)))]

\* r sin(t) cos(p), r sin(t) sin(p) and r cos(t), as first assigned: each is
\* nan where one of its own factors is nan.
Products(r, t, p) ==
    [x |-> Mul(Mul(r, Sin(t)), Cos(p)),
     y |-> Mul(Mul(r, Sin(t)), Sin(p)),
     z |-> Mul(r, Cos(t))]

\* x, y, z before rtp2xyz floors them.
Unfloored(q) == Products(q.r, q.t, q.p)

\* A flooring that leaves every value as it is.
Floored_nothing(c) == c

\* x = zero_floor(x), y = zero_floor(y), z = zero_floor(z).
Floored(c) == [x |-> zero_floor(c.x), y |-> zero_floor(c.y), z |-> zero_floor(c.z)]

\* r sin(t) cos(p), r sin(t) sin(p) and r cos(t), each floored.
Cartesian(r, t, p) == Floored(Products(r, t, p))

\* src/support/numerics.py, rtp2xyz, on one element of its arrays.
rtp2xyz(q) == Cartesian(q.r, q.t, q.p)

\* A magnitude below epsilon: 1.3e-16, in the units of the small scale.
Tiny == Micro(5855)

\* Coordinates: the half units up to MaxCoord, and a magnitude below epsilon
\* of either sign.
Coords ==
    { F(k * (Scale \div 2)) : k \in (-MaxCoord)..MaxCoord } \cup {Tiny, Neg(Tiny)}

Points == [x : Coords, y : Coords, z : Coords]

InitCoords ==
    /\ op = "none"
    /\ args = PyNone
    /\ user = NoUser
    /\ result = NoResult
    /\ dataset = 0
    /\ todo = <<>>
    /\ fig = NoFig
    /\ saved = <<>>
    /\ xyz \in Points
    /\ rtp = NoPoint
    /\ back = NoPoint
    /\ raw = NoPoint
    /\ series = NoSeries
    /\ xs = NoSeries
    /\ smoothed = NoSeries
    /\ obs = NoObs
    /\ file = NoFile
    /\ history = NoHistory
    /\ units = NoUnits
    /\ disk = {}
    /\ clock = 0
    /\ runs = 1
    /\ before = {}
    /\ terms = <<>>
    /\ props = NoProps
    /\ panel = NoPanel
    /\ markers = <<>>

CallXyz2rtp ==
    /\ op = "none"
    /\ op' = "xyz2rtp"
    /\ rtp' = xyz2rtp(xyz)
    /\ raw' = [r |-> RootOfSquares(xyz)]
    /\ UNCHANGED <<args, user, result, dataset, todo, fig, saved, xyz, back, series, xs, smoothed, obs, file, history, units, disk, clock, runs, before, terms, props, panel, markers>>

CallRtp2xyz ==
    /\ op = "xyz2rtp"
    /\ op' = "rtp2xyz"
    /\ back' = rtp2xyz(rtp)
    /\ raw' = [r |-> raw.r, c |-> Unfloored(rtp)]
    /\ UNCHANGED <<args, user, result, dataset, todo, fig, saved, xyz, rtp, series, xs, smoothed, obs, file, history, units, disk, clock, runs, before, terms, props, panel, markers>>

NextCoords ==
    \/ CallXyz2rtp
    \/ CallRtp2xyz

SpecCoords == InitCoords /\ [][NextCoords]_vars

---------------------------------------------------------------------------
(* Claims about the coordinate transforms *)

Origin == [x |-> F(0), y |-> F(0), z |-> F(0)]

\* xyz2rtp has returned (its result stays in rtp after rtp2xyz).
Transformed == op \in {"xyz2rtp", "rtp2xyz"}

\* C8: xyz2rtp handles the degenerate inputs: wherever r is 0 the returned
\* theta is exactly 0, and wherever x is 0 the returned phi is +pi/2 for
\* y >= 0 and -pi/2 for y < 0 (the floats 0.5*numpy.pi and -0.5*numpy.pi).
C8_DegenerateInputs ==
    Transformed =>
        /\ rtp.r = F(0) => rtp.t = F(0)
        /\ xyz.x = F(0) =>
              rtp.p = (IF IsNegative(xyz.y) THEN Neg(HalfPiF) ELSE HalfPiF)

\* The origin transformed: r = 0 and x = 0 at once.
C8_Witness ==
    /\ op = "xyz2rtp"
    /\ xyz = Origin
    /\ rtp = [r |-> F(0), t |-> F(0), p |-> HalfPiF]

\* C9: for every input point, the phi returned by xyz2rtp lies in
\* [0, 2 pi).
C9_PhiInRange ==
    Transformed =>
        /\ ~rtp.p.nan
        /\ ~IsNegative(rtp.p)
        /\ rtp.p.q * HalfPi + rtp.p.v < TwoPi

\* The distance allowed between a coordinate and its round trip: rounding an
\* angle to 1/Scale moves a point in proportion to its radius.  What a
\* coordinate holds on the small scale is below every such distance.
Tol == 2 * MaxCoord

Close(a, b) == ~a.nan /\ Abs(a.v - b.v) <= Tol

\* C10: rtp2xyz of xyz2rtp of a point is the point, within tolerance, and is
\* exactly (0, 0, 0) for the origin.
C10_RoundTrip ==
    op = "rtp2xyz" =>
        /\ Close(back.x, xyz.x)
        /\ Close(back.y, xyz.y)
        /\ Close(back.z, xyz.z)
        /\ xyz = Origin => back = [x |-> F(0), y |-> F(0), z |-> F(0)]

\* A point off every axis and plane, taken there and back.
C10_Witness ==
    /\ op = "rtp2xyz"
    /\ xyz = [x |-> F(-(Scale \div 2)), y |-> F(Scale), z |-> F(-Scale)]
    /\ rtp.r.v > 0
    /\ Close(back.x, xyz.x)
    /\ Close(back.y, xyz.y)
    /\ Close(back.z, xyz.z)

\* A value as zero_floor leaves it: 0 below epsilon, itself otherwise.
FlooredFrom(v, w) ==
    /\ ~w.nan
    /\ v = (IF BelowEpsilon(w) THEN F(0) ELSE w)
    /\ v = F(0) \/ v.v # 0 \/ Abs(v.e) >= EpsFx

\* C11: every component returned by rtp2xyz and every radius returned by
\* xyz2rtp is exactly zero or at least epsilon in magnitude: a value below
\* epsilon has become exactly 0 and every other value is as it was computed.
C11_SmallValuesFloored ==
    /\ Transformed => FlooredFrom(rtp.r, raw.r)
    /\ op = "rtp2xyz" =>
          /\ FlooredFrom(back.x, raw.c.x)
          /\ FlooredFrom(back.y, raw.c.y)
          /\ FlooredFrom(back.z, raw.c.z)

\* A point a hair off the y axis: its radius is kept, and the x that comes
\* back, below epsilon and not zero, has been floored.
C11_Witness ==
    /\ op = "rtp2xyz"
    /\ raw.c.x # F(0)
    /\ BelowEpsilon(raw.c.x)
    /\ back.x = F(0)
    /\ back.y = raw.c.y
    /\ back.y.v # 0
    /\ rtp.r = raw.r

---------------------------------------------------------------------------
(* smooth: the Savitzky-Golay filter and the replacement of what is not
   positive *)

\* signal.savgol_filter(x, 11, 2): the length of the window.
Window == 11
Half == Window \div 2

\* The longest array smoothed.
MaxLen == 11

\* The common denominator of the filter's coefficients for this window: a
\* filtered value is a sum of whole multiples of 1/Denom of the inputs.
Denom == 4290

RECURSIVE Power(_, _)
Power(b, k) == IF k = 0 THEN 1 ELSE b * Power(b, k - 1)

\* An element of an array is (a + b * sys.float_info.min) / Denom^k, with k
\* kept once for the array: exact arithmetic on what the floats approximate.
El(a, b) == [a |-> a, b |-> b]
Arr(k, v) == [kind |-> "array", k |-> k, v |-> v]

\* An array of whole numbers.
ArrayOf(ns) == Arr(0, [i \in 1..Len(ns) |-> El(ns[i], 0)])

\* Denom times the weight that the quadratic fitted by least squares to a
\* window gives, at offset t from the centre, to the input at offset u.
Weight(t, u) == 390 + 39 * t * u + 5 * (t * t - 10) * (u * u - 10)

\* The first index of the window used for the output at i: centred on i,
\* held inside the array at the edges (mode 'interp').
WindowStart(i, n) ==
    IF i - Half < 1 THEN 1
    ELSE IF i - Half > n - Window + 1 THEN n - Window + 1
    ELSE i - Half

RECURSIVE WeightedSumA(_, _, _, _)
WeightedSumA(v, start, t, j) ==
    IF j = Window THEN 0
    ELSE Weight(t, j - Half) * v[start + j].a + WeightedSumA(v, start, t, j + 1)

RECURSIVE WeightedSumB(_, _, _, _)
WeightedSumB(v, start, t, j) ==
    IF j = Window THEN 0
    ELSE Weight(t, j - Half) * v[start + j].b + WeightedSumB(v, start, t, j + 1)

FilteredAt(v, i, start) ==
    El(WeightedSumA(v, start, i - (start + Half), 0),
       WeightedSumB(v, start, i - (start + Half), 0))

\* signal.savgol_filter(x, 11, 2) of an array at least as long as the window.
savgol_filter(x) ==
    Arr(x.k + 1,
        [i \in 1..Len(x.v) |-> FilteredAt(x.v, i, WindowStart(i, Len(x.v)))])

\* e > 0.
Positive(e) == e.a > 0 \/ (e.a = 0 /\ e.b > 0)

\* sys.float_info.min, in an array of denominator Denom^k.
FloatMin(k) == El(0, Power(Denom, k))

\* A replacement that keeps what the filter gave.
Where_keeps_all(f) == f

\* numpy.where(xs > 0, xs, sys.float_info.min).
Where(f) ==
    Arr(f.k, [i \in 1..Len(f.v) |->
                 IF Positive(f.v[i]) THEN f.v[i] ELSE FloatMin(f.k)])

\* xs = signal.savgol_filter(x, 11, 2), which refuses (mode 'interp') an
\* array shorter than its window.
Filtered(x) ==
    IF Len(x.v) < Window THEN Raised("ValueError", "savgol_filter")
    ELSE savgol_filter(x)

Replaced(f) == IF IsRaised(f) THEN f ELSE Where(f)

\* src/plot-node-dqdt.py and src/plot-node-history.py, smooth.
smooth(x) == Replaced(Filtered(x))

\* The arrays smoothed: flat at 0 or at 1, with a spike of 20 at any of
\* their places; empty, one short of the window, or up to MaxLen long.
Lengths == {0} \cup ((Window - 1)..MaxLen)

SpikedSeries(n) ==
    { [i \in 1..n |-> IF i \in S THEN 20 ELSE b] : b \in {0, 1}, S \in SUBSET (1..n) }

SeriesInputs == UNION { SpikedSeries(n) : n \in Lengths }

InitSmooth ==
    /\ op = "none"
    /\ args = PyNone
    /\ user = NoUser
    /\ result = NoResult
    /\ dataset = 0
    /\ todo = <<>>
    /\ fig = NoFig
    /\ saved = <<>>
    /\ xyz = NoPoint
    /\ rtp = NoPoint
    /\ back = NoPoint
    /\ raw = NoPoint
    /\ series \in { ArrayOf(ns) : ns \in SeriesInputs }
    /\ xs = NoSeries
    /\ smoothed = NoSeries
    /\ obs = NoObs
    /\ file = NoFile
    /\ history = NoHistory
    /\ units = NoUnits
    /\ disk = {}
    /\ clock = 0
    /\ runs = 1
    /\ before = {}
    /\ terms = <<>>
    /\ props = NoProps
    /\ panel = NoPanel
    /\ markers = <<>>

CallSmooth ==
    /\ op = "none"
    /\ op' = "smooth"
    /\ xs' = Filtered(series)
    /\ smoothed' = Replaced(xs')
    /\ UNCHANGED <<args, user, result, dataset, todo, fig, saved, xyz, rtp, back, raw, series, obs, file, history, units, disk, clock, runs, before, terms, props, panel, markers>>

NextSmooth == CallSmooth

SpecSmooth == InitSmooth /\ [][NextSmooth]_vars

---------------------------------------------------------------------------
(* Claims about smooth *)

\* What smooth returned is an array as long as its input, all positive, that
\* keeps each positive filtered value and has float-min for every other.
SmoothedAsClaimed ==
    /\ smoothed.kind = "array"
    /\ Len(smoothed.v) = Len(series.v)
    /\ \A i \in 1..Len(series.v) :
          /\ Positive(smoothed.v[i])
          /\ smoothed.v[i] = (IF Positive(xs.v[i]) THEN xs.v[i]
                              ELSE FloatMin(smoothed.k))

\* C12 (as stated): smooth returns an array of the length of its input in
\* which every element is strictly positive, each filtered value above 0
\* kept and each other one replaced by the smallest positive float.
C12_SmoothPositive == op = "smooth" => SmoothedAsClaimed

\* C12 (amended): the same, for an input at least as long as the filter's
\* window of 11; a shorter input makes smooth raise ValueError.
C12_SmoothPositiveFromWindow ==
    op = "smooth" =>
        IF Len(series.v) >= Window THEN SmoothedAsClaimed
        ELSE smoothed = Raised("ValueError", "savgol_filter")

\* An all-positive input whose filtered ends are negative: a spike in the
\* middle of a flat series.
C12_Witness ==
    /\ op = "smooth"
    /\ series = ArrayOf(<<1, 1, 1, 1, 1, 20, 1, 1, 1, 1, 1>>)
    /\ smoothed.kind = "array"
    /\ smoothed.v[1] = FloatMin(1)
    /\ smoothed.v[6] = El(Denom + 19 * Weight(0, 0), 0)

---------------------------------------------------------------------------
(* Node-history files: node.parse_history *)

\* The most entries in a header, and the most rows under it.
MaxEntries == 3
MaxRows == 2

RECURSIVE LStripChar(_, _)
LStripChar(s, c) == IF s # <<>> /\ Head(s) = c THEN LStripChar(Tail(s), c) ELSE s

RECURSIVE RStripChar(_, _)
RStripChar(s, c) ==
    IF s # <<>> /\ s[Len(s)] = c THEN RStripChar(SubSeq(s, 1, Len(s) - 1), c) ELSE s

Has(s, c) == \E i \in 1..Len(s) : s[i] = c

FirstIndex(s, c) == CHOOSE i \in 1..Len(s) : s[i] = c /\ \A j \in 1..(i - 1) : s[j] # c

\* str.split(c).
RECURSIVE Split(_, _)
Split(s, c) ==
    IF ~Has(s, c) THEN <<s>>
    ELSE <<SubSeq(s, 1, FirstIndex(s, c) - 1)>>
             \o Split(SubSeq(s, FirstIndex(s, c) + 1, Len(s)), c)

\* c.join(parts).
RECURSIVE Join(_, _)
Join(parts, c) ==
    IF parts = <<>> THEN <<>>
    ELSE IF Len(parts) = 1 THEN parts[1]
    ELSE parts[1] \o <<c>> \o Join(Tail(parts), c)

\* header.lstrip('#').rstrip('\n').split(';').
InfoEntries(header) == Split(RStripChar(LStripChar(header, "#"), "\n"), ";")

\* info[k] = v, in a dict held as a function from its keys.
SetItem(info, k, v) ==
    [key \in DOMAIN info \cup {k} |-> IF key = k THEN v ELSE info[key]]

\* An entry stored under its text before the colon, unstripped.
InfoEntry_unstripped(info, parts) == SetItem(info, parts[1], Strip(parts[2]))

\* result['info'][k.strip()] = v.strip().
InfoEntry(info, parts) == SetItem(info, Strip(parts[1]), Strip(parts[2]))

EmptyDict == [key \in {} |-> <<>>]

\* The loop over the entries: an empty entry is passed over, and k, v =
\* entry.split(':') raises ValueError unless the entry has just one colon.
RECURSIVE ParseInfo(_, _)
ParseInfo(entries, info) ==
    IF entries = <<>> THEN [kind |-> "dict", d |-> info]
    ELSE IF Head(entries) = <<>> THEN ParseInfo(Tail(entries), info)
    ELSE IF Len(Split(Head(entries), ":")) # 2 THEN Raised("ValueError", "split")
    ELSE ParseInfo(Tail(entries), InfoEntry(info, Split(Head(entries), ":")))

\* A numpy array of one dimension, and the scalar that loadtxt gives for a
\* column of a single row.
NdArray(vals) == [shape |-> <<Len(vals)>>, v |-> vals]
Scalar(val) == [shape |-> <<>>, v |-> <<val>>]

Column(rows, c) == [i \in 1..Len(rows) |-> FloatParse(rows[i][c]).val]

\* time, data = numpy.loadtxt(fp, unpack=True) on rows of two numbers: no row
\* gives an empty array, which does not unpack; one row gives two scalars.
loadtxt(rows) ==
    IF rows = <<>> THEN Raised("ValueError", "unpack")
    ELSE IF Len(rows) = 1
         THEN [kind |-> "columns", time |-> Scalar(Column(rows, 1)[1]),
               data |-> Scalar(Column(rows, 2)[1])]
    ELSE [kind |-> "columns", time |-> NdArray(Column(rows, 1)),
          data |-> NdArray(Column(rows, 2))]

History(cols, info) ==
    IF IsRaised(cols) THEN cols
    ELSE IF IsRaised(info) THEN info
    ELSE [kind |-> "history", time |-> cols.time, data |-> cols.data, info |-> info.d]

\* src/node.py, parse_history.
parse_history(f) == History(loadtxt(f.rows), ParseInfo(InfoEntries(f.header), EmptyDict))

---------------------------------------------------------------------------
(* write-node-history.py and plot-node-q.py *)

DigitChar(n) ==
    CASE n = 0 -> "0" [] n = 1 -> "1" [] n = 2 -> "2" [] n = 3 -> "3"
      [] n = 4 -> "4" [] n = 5 -> "5" [] n = 6 -> "6" [] n = 7 -> "7"
      [] n = 8 -> "8" [] n = 9 -> "9"

\* str(n) of a natural number.
RECURSIVE StrNat(_)
StrNat(n) == IF n < 10 THEN <<DigitChar(n)>> ELSE StrNat(n \div 10) \o <<DigitChar(n % 10)>>

\* str() of a whole float: '0.0', '1.0', ..., '12.0'.
StrFloat(n) == StrNat(n) \o <<".", "0">>

\* The texts the scripts write and look up.
DataName == <<"d", "a", "t", "a", " ", "n", "a", "m", "e">>
TimeUnit == <<"t", "i", "m", "e", " ", "u", "n", "i", "t">>
DataUnit == <<"d", "a", "t", "a", " ", "u", "n", "i", "t">>
TimeUnits == <<"t", "i", "m", "e", " ", "u", "n", "i", "t", "s">>
DataUnits == <<"d", "a", "t", "a", " ", "u", "n", "i", "t", "s">>
Days == <<"d", "a", "y", "s">>

\* src/write-node-history.py, build_header.
build_header(physics, observation) ==
    <<"#">>
      \o <<" ">> \o DataName \o <<":", " ">> \o physics \o <<";">>
      \o <<" ">> \o TimeUnit \o <<":", " ">> \o Days \o <<";">>
      \o <<" ">> \o DataUnit \o <<":", " ">> \o observation.unit \o <<";">>
      \o (IF Has(observation.dimensions, "species")
          THEN <<" ", "s", "p", "e", "c", "i", "e", "s", ":", " ">> \o observation.species \o <<";">>
          ELSE <<>>)
      \o (IF Has(observation.dimensions, "energy")
          THEN <<" ", "e", "n", "e", "r", "g", "y", ":", " ">> \o observation.energy
          ELSE <<>>)
      \o <<"\n">>

\* f'{str(t)} {str(v)}' for t, v in zip(times, history): the times are the
\* days 0.0, 1.0, ... and the history the observation on the node.
TextRows(observation) ==
    [i \in 1..Len(observation.data) |-> <<StrFloat(i - 1), StrFloat(observation.data[i])>>]

\* A file as it is read back: its first line, and its rows split at blanks.
File(header, rows) == [kind |-> "file", header |-> header, rows |-> rows]

\* src/write-node-history.py, main: the keywords it passes to write as
\* **indices.
WriteIndices == {"species", "energy"}

\* The dimensions of the observable that **indices has no key for, in order.
Unindexed(dimensions) == SelectSeq(dimensions, LAMBDA d : d \notin WriteIndices)

\* src/write-node-history.py, write: idx looks up every dimension of the
\* observable in **indices, and the first one missing is a KeyError; compute
\* squeezes the history of a single time to a 0-d array, which zip cannot
\* iterate.
write(physics, observation) ==
    IF Unindexed(observation.dimensions) # <<>>
    THEN Raised("KeyError", Head(Unindexed(observation.dimensions)))
    ELSE IF Len(observation.data) = 1 THEN Raised("TypeError", "zip")
    ELSE File(build_header(physics, observation), TextRows(observation))

\* info[key] of plot-node-q.py.
Lookup(info, key) == IF key \in DOMAIN info THEN [kind |-> "str", s |-> info[key]]
                     ELSE Raised("KeyError", key)

Labelled(xunit, name, yunit) ==
    IF IsRaised(xunit) THEN xunit
    ELSE IF IsRaised(name) THEN name
    ELSE IF IsRaised(yunit) THEN yunit
    ELSE [kind |-> "figure", xlabel |-> xunit.s, yname |-> name.s, yunit |-> yunit.s]

\* src/plot-node-q.py, main, for one file: the labels read info['time units'],
\* info['data name'] and info['data units'] before the figure is saved.
plot_node_q(h) ==
    IF IsRaised(h) THEN h
    ELSE Labelled(Lookup(h.info, TimeUnits), Lookup(h.info, DataName),
                  Lookup(h.info, DataUnits))

\* The entries a hand-written header is made of: key and value with and
\* without blanks, a key met twice, an empty and a blank entry, an entry with
\* no colon and one with two.
EntryPool ==
    { <<" ", "a", ":", " ", "1">>, <<" ", "b", ":", " ", "2">>, <<"a", ":", "3">>, <<>>, <<" ">>, <<" ", "c">>, <<" ", "d", ":", " ", "1", ":", "2">> }

EntryLists == UNION { [1..n -> EntryPool] : n \in 0..MaxEntries }

\* The header of the worked example: data name, time unit and data unit.
ExampleHeader ==
    <<"#">> \o Join(<<<<" ", "d", "a", "t", "a", " ", "n", "a", "m", "e", ":", " ", "r", "h", "o">>, <<" ", "t", "i", "m", "e", " ", "u", "n", "i", "t", ":", " ", "d", "a", "y", "s">>, <<" ", "d", "a", "t", "a", " ", "u", "n", "i", "t", ":", " ", "c", "m", "^", "-", "3">>, <<>> >>, ";") \o <<"\n">>

\* A header with the keys that plot-node-q.py reads.
PluralHeader ==
    <<"#">> \o Join(<<<<" ", "d", "a", "t", "a", " ", "n", "a", "m", "e", ":", " ", "r", "h", "o">>, <<" ", "t", "i", "m", "e", " ", "u", "n", "i", "t", "s", ":", " ", "d", "a", "y", "s">>, <<" ", "d", "a", "t", "a", " ", "u", "n", "i", "t", "s", ":", " ", "c", "m", "^", "-", "3">>>>, ";") \o <<"\n">>

Headers ==
    { <<"#">> \o Join(es, ";") \o <<"\n">> : es \in EntryLists }
        \cup {ExampleHeader, PluralHeader}

RowPool == { <<<<"0", ".", "0">>, <<"1", ".", "0">>>>, <<<<"1", ".", "0">>, <<"2", ".", "0">>>> }

RowLists == UNION { [1..n -> RowPool] : n \in 0..MaxRows }

HandFiles == { File(hd, rows) : hd \in Headers, rows \in RowLists }

Observation(physics, unit, dimensions, data) ==
    [kind |-> "obs", physics |-> physics, unit |-> unit, dimensions |-> dimensions,
     species |-> <<"H", "+">>, energy |-> <<"1", ".", "0">>, data |-> data]

\* The dimensions an observable may name, in order: those main passes an
\* index for, with and without the axes of time and shell before them.
Dimensions ==
    { <<>>, <<"species">>, <<"energy">>, <<"species", "energy">>,
      <<"time", "shell">>, <<"time", "shell", "species", "energy">> }

Observations ==
    { Observation(ph, <<"c", "m", "^", "-", "3">>, dims, data) :
        ph \in {<<"r", "h", "o">>, <<"V", "r">>}, dims \in Dimensions,
        data \in UNION { [1..n -> {1, 2}] : n \in 0..MaxRows } }

InitHistory ==
    /\ op = "none"
    /\ args = PyNone
    /\ user = NoUser
    /\ result = NoResult
    /\ dataset = 0
    /\ todo = <<>>
    /\ fig = NoFig
    /\ saved = <<>>
    /\ xyz = NoPoint
    /\ rtp = NoPoint
    /\ back = NoPoint
    /\ raw = NoPoint
    /\ series = NoSeries
    /\ xs = NoSeries
    /\ smoothed = NoSeries
    /\ history = NoHistory
    /\ units = NoUnits
    /\ disk = {}
    /\ clock = 0
    /\ runs = 1
    /\ before = {}
    /\ terms = <<>>
    /\ props = NoProps
    /\ panel = NoPanel
    /\ markers = <<>>
    /\ \/ obs = NoObs /\ file \in HandFiles
       \/ obs \in Observations /\ file = NoFile

Written(w) ==
    /\ op' = IF IsRaised(w) THEN "write failed" ELSE "write"
    /\ result' = IF IsRaised(w) THEN w ELSE result
    /\ file' = IF IsRaised(w) THEN file ELSE w

\* write-node-history.py writes the history of its observation.
WriteNodeHistory ==
    /\ op = "none"
    /\ obs # NoObs
    /\ Written(write(obs.physics, obs))
    /\ UNCHANGED <<args, user, dataset, todo, fig, saved, xyz, rtp, back, raw, series, xs, smoothed, obs, history, units, disk, clock, runs, before, terms, props, panel, markers>>

\* node.parse_history reads a file, hand-written or just written.
CallParseHistory ==
    /\ op \in {"none", "write"}
    /\ file # NoFile
    /\ op' = "parse_history"
    /\ history' = parse_history(file)
    /\ UNCHANGED <<args, user, result, dataset, todo, fig, saved, xyz, rtp, back, raw, series, xs, smoothed, obs, file, units, disk, clock, runs, before, terms, props, panel, markers>>

\* src/plot-node-q.py, main, for one file: plt.plot draws the history once
\* the file is parsed, before the labels are looked up; savefig and
\* plt.close follow the labels.
NodeQFigure(h, labelled, figure) ==
    IF IsRaised(h) THEN figure
    ELSE IF IsRaised(labelled) THEN [figure EXCEPT !.curves = @ + 1]
    ELSE NoFig

\* plot-node-q.py plots one file: it parses it, draws the history, labels
\* the axes from the metadata and saves the figure.
PlotNodeQ ==
    /\ op \in {"none", "write"}
    /\ file # NoFile
    /\ op' = "plot_node_q"
    /\ history' = parse_history(file)
    /\ result' = plot_node_q(history')
    /\ fig' = NodeQFigure(history', result', fig)
    /\ saved' = IF IsRaised(result') THEN saved ELSE Append(saved, 1)
    /\ UNCHANGED <<args, user, dataset, todo, xyz, rtp, back, raw, series, xs, smoothed, obs, file, units, disk, clock, runs, before, terms, props, panel, markers>>

NextHistory ==
    \/ WriteNodeHistory
    \/ CallParseHistory
    \/ PlotNodeQ

SpecHistory == InitHistory /\ [][NextHistory]_vars

---------------------------------------------------------------------------
(* Claims about node-history files *)

\* The header's entries, and those of them that are not empty.
HeaderEntries == InfoEntries(file.header)
NonEmpty == { i \in 1..Len(HeaderEntries) : HeaderEntries[i] # <<>> }

\* Every entry that is not empty reads 'key: value', with one colon.
KeyValueHeader == \A i \in NonEmpty : Len(Split(HeaderEntries[i], ":")) = 2

KeyOf(i) == Strip(Split(HeaderEntries[i], ":")[1])
ValueOf(i) == Strip(Split(HeaderEntries[i], ":")[2])

DistinctKeys == \A i, j \in NonEmpty : KeyOf(i) = KeyOf(j) => i = j

\* What C13 says parse_history returns: the two columns as arrays in row
\* order, and one entry of metadata per non-empty entry of the header.
ParsedAsClaimed ==
    /\ history.kind = "history"
    /\ history.time = NdArray(Column(file.rows, 1))
    /\ history.data = NdArray(Column(file.rows, 2))
    /\ Cardinality(DOMAIN history.info) = Cardinality(NonEmpty)
    /\ \A i \in NonEmpty :
          /\ KeyOf(i) \in DOMAIN history.info
          /\ history.info[KeyOf(i)] = ValueOf(i)

\* C13 (as stated): on a file whose first line is '#' and 'key: value'
\* entries between semicolons, parse_history returns the first column as the
\* time array, the second as the data array, and metadata with exactly one
\* entry per non-empty header entry, keyed and valued by the stripped texts
\* before and after the colon.
C13_ParseHistory ==
    (op = "parse_history" /\ KeyValueHeader) => ParsedAsClaimed

\* C13 (amended): the same for a file of at least two rows whose entries
\* have distinct keys; with no row parse_history raises ValueError, and with
\* one row the time and the data are scalars, not arrays.
C13_ParseHistoryOfRows ==
    (op = "parse_history" /\ KeyValueHeader) =>
        /\ (Len(file.rows) >= 2 /\ DistinctKeys) => ParsedAsClaimed
        /\ Len(file.rows) = 0 => history = Raised("ValueError", "unpack")
        /\ Len(file.rows) = 1 =>
              /\ history.time = Scalar(Column(file.rows, 1)[1])
              /\ history.data = Scalar(Column(file.rows, 2)[1])

\* The worked example: three entries and the rows '0.0 1.0' and '1.0 2.0'.
C13_Witness ==
    /\ op = "parse_history"
    /\ file.header = ExampleHeader
    /\ history.kind = "history"
    /\ history.time = NdArray(<<Dec(0, 0), Dec(1, 0)>>)
    /\ history.data = NdArray(<<Dec(1, 0), Dec(2, 0)>>)
    /\ history.info = (DataName :> <<"r", "h", "o">> @@ TimeUnit :> Days @@ DataUnit :> <<"c", "m", "^", "-", "3">>)

\* A file that write-node-history.py wrote has been plotted by plot-node-q.py.
WrittenAndPlotted == op = "plot_node_q" /\ obs # NoObs

\* C14: every file that write-node-history.py writes is consumable by the
\* history-reading scripts: parse_history parses its header without error,
\* the metadata holds every key plot-node-q.py looks up, and plotting it
\* never fails on a missing key.
C14_WrittenFilesPlot ==
    WrittenAndPlotted =>
        /\ ~IsRaised(history)
        /\ {TimeUnits, DataName, DataUnits} \subseteq DOMAIN history.info
        /\ ~IsRaised(result)
        /\ saved # <<>>

---------------------------------------------------------------------------
(* Runs of the scripts and the files they leave behind *)

\* How many times a script is run on the same arguments and input.
MaxRuns == 2

\* A variant that selects by truth, so that -n 0 selects every stream.
get_streams_truthy(n, num) ==
    IF Truthy(num) THEN <<num.n>> ELSE [i \in 1..n |-> i - 1]

\* src/stream-survey.py, get_streams (as get_streams of support/interfaces.py
\* and support/observers.py): the stream `num` when it is an integer, every
\* stream otherwise.
survey_get_streams(n, num) ==
    IF num.kind = "int" THEN <<num.n>> ELSE [i \in 1..n |-> i - 1]

\* src/stream-survey.py, plot_stream: units = {q: user.get(f'{q}', u) for
\* q, u in UNITS.items()}.
survey_units(u) == [q \in DOMAIN UNITS |-> GetOr(u, q, UNITS[q])]

\* src/stream-survey.py, make_suptitle: the exception it raises, or None.
make_suptitle(location, species) ==
    IF location.kind \notin {"Measurement", "int"}
    THEN Raised("TypeError", "location")
    ELSE IF species.kind \notin {"int", "str"}
    THEN Raised("TypeError", "species")
    ELSE PyNone

\* src/stream-survey.py, plot_stream, from the resolved location on: three
\* panels, then the title.
survey_plot_panels(location, species) ==
    IF IsRaised(location) THEN Outcome(location, 0, FALSE, FALSE)
    ELSE Outcome(make_suptitle(location, species), 3, FALSE, FALSE)

\* src/stream-survey.py, plot_stream (get_location and get_species of the
\* script read as those of support/observers.py do).
survey_plot_stream(u) == survey_plot_panels(get_location(u), get_species(u))

\* The units plot_stream has used once it is past the line that computes
\* them: get_location raises before it.
SurveyUnitsAfter(err, computed, old) ==
    IF IsRaised(err) /\ err.cls = "ValueError" THEN old ELSE computed

\* The path a script was given.
GivenPath(found) == [kind |-> "given", name |-> found.s]

\* datadir / f"streams3D_{now}.html".
StampedPath(now) == [kind |-> "stamped", now |-> now]

\* A variant that stamps every path with the time.
build_figpath_stamped(cli, now) == StampedPath(now)

\* src/streams3D.py, build_figpath; `now` is datetime.now() to the second.
build_figpath(cli, now) ==
    IF Truthy(Get(cli, "figpath")) THEN GivenPath(Get(cli, "figpath"))
    ELSE StampedPath(now)

\* src/write-node-history.py, main: the path given, or the script's name
\* with the suffix .txt.
WritePath(writepath) ==
    IF writepath.kind = "None"
    THEN [kind |-> "given", name |-> <<"w", ".", "t", "x", "t">>]
    ELSE GivenPath(writepath)

\* The items of a list, as a set.
Items(q) == { q[i] : i \in 1..Len(q) }

\* '.' of a regular expression matches every character but the newline.
Dots(s) == \A i \in 1..Len(s) : s[i] # "\n"

\* RE = r"(?P<name>.*)\s*\[(?P<unit>.*)\]" matched at the start of q: the
\* lengths the name may have, which is characters that '.' matches, followed
\* by whitespace, a '[', a unit that '.' matches and a ']'.
NameEnds(q) ==
    { k \in 0..Len(q) :
        /\ Dots(SubSeq(q, 1, k))
        /\ \E j \in (k + 1)..Len(q) :
              /\ q[j] = "["
              /\ \A i \in (k + 1)..(j - 1) : q[i] \in Whitespace
              /\ \E m \in (j + 1)..Len(q) :
                    q[m] = "]" /\ Dots(SubSeq(q, j + 1, m - 1)) }

Last(S) == CHOOSE i \in S : \A j \in S : j <= i

\* src/plot-node-history.py, get_observable: the name of the observable.
\* A quantity holding both brackets is matched against RE, name first and
\* greedily, and the name is stripped on the right; any other quantity is
\* its own name.
ObservableName(q) ==
    IF Has(q, "[") /\ Has(q, "]")
    THEN IF NameEnds(q) = {} THEN Raised("ValueError", "get_observable")
         ELSE PyStr(RStrip(SubSeq(q, 1, Last(NameEnds(q)))))
    ELSE PyStr(q)

\* The observables of a stream, by name.
Observables == { <<"r", "h", "o">>, <<"B", "r">> }

\* container.unique: the items in order, each once.
RECURSIVE Unique(_)
Unique(q) ==
    IF q = <<>> THEN <<>>
    ELSE LET rest == Unique(SubSeq(q, 1, Len(q) - 1))
         IN  IF \E i \in 1..(Len(q) - 1) : q[i] = q[Len(q)] THEN rest
             ELSE Append(rest, q[Len(q)])

\* src/plot-node-history.py, get_observable: the exception it raises, or
\* None.  A quantity holding both brackets is looked up by its name, and
\* what the stream raises for an unknown name is let through; any other
\* quantity is looked up as it is, and a failure re-raised as ValueError.
get_observable(q) ==
    IF Has(q, "[") /\ Has(q, "]")
    THEN IF IsRaised(ObservableName(q)) THEN ObservableName(q)
         ELSE IF ObservableName(q).s \notin Observables THEN Raised("KeyError", "stream")
         ELSE PyNone
    ELSE IF q \notin Observables THEN Raised("ValueError", "get_observable")
    ELSE PyNone

\* src/plot-node-history.py, main: quantity.lower() == 'dqdt'.
IsDqdt(q) == [i \in 1..Len(q) |-> Lower(q[i])] = <<"d", "q", "d", "t">>

\* src/plot-node-history.py, main, for one quantity: plot_dqdt_history when
\* quantity.lower() is 'dqdt', plot_quantity_history otherwise.
plot_history(q) == IF IsDqdt(q) THEN PyNone ELSE get_observable(q)

\* The curves the loop of main has drawn when it ends: plot_dqdt_history
\* draws four terms twice, raw and smoothed, plot_quantity_history one curve.
RECURSIVE HistoryCurves(_)
HistoryCurves(q) ==
    IF q = <<>> THEN 0
    ELSE IF IsRaised(plot_history(Head(q))) THEN 0
    ELSE (IF IsDqdt(Head(q)) THEN 8 ELSE 1) + HistoryCurves(Tail(q))

\* src/plot-node-history.py, main, the loop over the quantities in order:
\* the first exception, or None.
RECURSIVE PlotQuantities(_)
PlotQuantities(q) ==
    IF q = <<>> THEN PyNone
    ELSE IF IsRaised(plot_history(Head(q))) THEN plot_history(Head(q))
    ELSE PlotQuantities(Tail(q))

\* A variant that saves the panels plotted before an unknown quantity.
plot_node_history_main_saving(u) ==
    IF u.quantities = <<>>
    THEN Outcome(Raised("ValueError", "Nothing to plot"), 0, FALSE, FALSE)
    ELSE Outcome(PlotQuantities(Unique(u.quantities)),
                 HistoryCurves(Unique(u.quantities)), FALSE,
                 ~IsRaised(plot_history(Head(u.quantities))))

\* src/plot-node-history.py, main: one panel per quantity, one savefig after
\* the last.
plot_node_history_main(u) ==
    IF u.quantities = <<>>
    THEN Outcome(Raised("ValueError", "Nothing to plot"), 0, FALSE, FALSE)
    ELSE Outcome(PlotQuantities(Unique(u.quantities)),
                 HistoryCurves(Unique(u.quantities)), FALSE,
                 ~IsRaised(PlotQuantities(Unique(u.quantities))))

\* f"{stream.source.stem}-history-{step}_{shell}_{species}_{energy}MeV.png".
HistoryPath(u) == StreamPath(u.n, <<"-history", u.step, u.shell>>)

\* The arguments of the runs.
Unit == PyStr(<<"k", "e", "V">>)
Day == PyStr(<<"d", "a", "y">>)
UnitArgs == {PyNone, Unit, PyStr(<<>>)}
TimeUnitArgs == {PyNone, Day, PyStr(<<>>)}
NumArgs == {PyNone} \cup { PyInt(k) : k \in 0..(MaxStreams - 1) }
RunTokens == { <<"0">>, <<"a", "u">> }
RunArgs == {PyNone} \cup { PyList(t) : t \in UNION { [1..n -> RunTokens] : n \in 0..2 } }

FluxRuns ==
    { [script |-> "stream-flux-energy", time |-> x[1], location |-> x[2],
       show_initial |-> FALSE, num |-> x[3], energy_unit |-> x[4],
       flux_unit |-> x[5]] :
        x \in RunArgs \X RunArgs \X NumArgs \X UnitArgs \X {PyNone, Unit} }

SurveyRuns ==
    { [script |-> "stream-survey", shell |-> x[1], radius |-> x[2],
       species |-> x[3], num |-> x[4], time_unit |-> x[5],
       energy_unit |-> x[6]] :
        x \in {PyNone, PyInt(0), PyInt(1), PyStr(<<"0">>)} \X RadiusInputs
              \X {PyNone, PyStr(<<"H", "+">>), PyInt(0), [kind |-> "float"]}
              \X NumArgs \X TimeUnitArgs \X {PyNone, Unit} }

\* src/streams3D.py, __main__: -v counts, and argparse stores None when it is
\* not given.
Streams3DRuns ==
    { [script |-> "streams3D", figpath |-> f, verbosity |-> v, num |-> PyNone] :
        f \in {PyNone, PyStr(<<>>), PyStr(<<"a", ".", "h", "t", "m", "l">>)},
        v \in {PyNone, PyInt(1)} }

\* The quantities plot-node-history.py is asked for: observables, with a
\* unit and without, dQ/dt in two spellings, and names of no observable.
HistoryQuantities ==
    { <<"r", "h", "o">>, <<"r", "h", "o", " ", "[", "c", "m", "^", "-", "3", "]">>,
      <<"d", "Q", "d", "t">>, <<"D", "Q", "D", "T">>,
      <<"b", "o", "g", "u", "s">>, <<"b", "o", "g", "u", "s", " ", "[", "g", "]">> }

HistoryRuns ==
    { [script |-> "plot-node-history", quantities |-> q, n |-> 0, step |-> 0,
       shell |-> k, num |-> PyNone] :
        q \in UNION { [1..n -> HistoryQuantities] : n \in 0..2 },
        k \in 0..1 }

\* src/point-survey.py, __main__: -n is declared without a type, so argparse
\* stores the token it was given, a string.  The species is None, a string,
\* or what a caller of main passed, such as a float.
PointRuns ==
    { [script |-> "point-survey", num |-> n, species |-> sp] :
        n \in {PyNone} \cup { PyStr(<<DigitChar(k)>>) : k \in 0..(MaxStreams - 1) },
        sp \in {PyNone, PyStr(<<"H", "+">>), [kind |-> "float"]} }

UnitsCalls ==
    { [script |-> "get_units", time_unit |-> x[1], energy_unit |-> x[2],
       flux_unit |-> x[3], num |-> PyNone] :
        x \in TimeUnitArgs \X UnitArgs \X UnitArgs }

WriteRuns ==
    { [script |-> "write-node-history", writepath |-> w, num |-> PyNone] :
        w \in {PyNone, PyStr(<<"o", ".", "t", "x", "t">>)} }

RunUsers ==
    FluxRuns \cup SurveyRuns \cup Streams3DRuns \cup HistoryRuns \cup WriteRuns
    \cup UnitsCalls \cup PointRuns

InitRuns ==
    /\ op = "none"
    /\ args = PyNone
    /\ result = NoResult
    /\ dataset \in 1..MaxStreams
    /\ user \in RunUsers
    /\ user.num.kind = "int" => user.num.n < dataset
    /\ user.script \notin {"stream-flux-energy", "stream-survey", "point-survey"}
           => dataset = 1
    /\ (user.script = "point-survey" /\ user.num.kind = "str")
           => IntParse(user.num.s).val < dataset
    /\ todo = <<>>
    /\ fig = NoFig
    /\ saved = <<>>
    /\ xyz = NoPoint
    /\ rtp = NoPoint
    /\ back = NoPoint
    /\ raw = NoPoint
    /\ series = NoSeries
    /\ xs = NoSeries
    /\ smoothed = NoSeries
    /\ obs \in IF user.script = "write-node-history"
               THEN { Observation(<<"r", "h", "o">>, <<"c", "m", "^", "-", "3">>, dims, d) :
                        dims \in {<<"species">>, <<"time", "shell">>},
                        d \in { <<1>>, <<1, 2>> } }
               ELSE {NoObs}
    /\ file = NoFile
    /\ history = NoHistory
    /\ units = NoUnits
    /\ disk = {}
    /\ clock = 0
    /\ runs = 1
    /\ before = {}
    /\ terms = <<>>
    /\ props = NoProps
    /\ panel = NoPanel
    /\ markers = <<>>

\* src/stream-flux-energy.py, run as a script.
RunStreamFluxEnergy ==
    /\ user.script = "stream-flux-energy"
    /\ \/ StreamFluxEnergyStart
       \/ StreamFluxEnergyPlot
       \/ StreamFluxEnergySave

\* src/stream-survey.py, main: the streams are selected.
StreamSurveyStart ==
    /\ user.script = "stream-survey"
    /\ op = "none"
    /\ op' = "stream-survey.loop"
    /\ todo' = survey_get_streams(dataset, user.num)
    /\ UNCHANGED <<args, user, result, dataset, fig, saved, xyz, rtp, back, raw, series, xs, smoothed, obs, file, history, units, disk, clock, runs, before, terms, props, panel, markers>>

\* src/stream-survey.py, main: plot_stream on the next stream.
StreamSurveyPlot ==
    /\ op = "stream-survey.loop"
    /\ todo # <<>>
    /\ Plotted(survey_plot_stream(user))
    /\ units' = SurveyUnitsAfter(result', survey_units(user), units)
    /\ op' = IF IsRaised(result') THEN "stream-survey.error"
             ELSE "stream-survey.plotted"
    /\ UNCHANGED <<args, user, dataset, todo, saved, xyz, rtp, back, raw, series, xs, smoothed, obs, file, history, disk, clock, runs, before, terms, props, panel, markers>>

\* src/stream-survey.py, main: savefig and close.
StreamSurveySave ==
    /\ op = "stream-survey.plotted"
    /\ saved' = Append(saved, Head(todo))
    /\ todo' = Tail(todo)
    /\ fig' = NoFig
    /\ result' = NoResult
    /\ disk' = disk \cup {StreamPath(Head(todo), ".png")}
    /\ op' = IF Tail(todo) = <<>> THEN "stream-survey.done"
             ELSE "stream-survey.loop"
    /\ UNCHANGED <<args, user, dataset, xyz, rtp, back, raw, series, xs, smoothed, obs, file, history, units, clock, runs, before, terms, props, panel, markers>>

\* src/point-survey.py, get_points: the point `num` when it is an integer,
\* every point of the dataset otherwise.
get_points(n, num) ==
    IF num.kind = "int" THEN <<num.n>> ELSE [i \in 1..n |-> i - 1]

\* src/point-survey.py, plot_point: three panels are plotted, then
\* make_suptitle raises TypeError on a species that is neither an integer
\* nor a string.
plot_point(species) ==
    IF species.kind \notin {"int", "str"}
    THEN Outcome(Raised("TypeError", "species"), 3, FALSE, FALSE)
    ELSE Outcome(PyNone, 3, FALSE, FALSE)

\* src/point-survey.py, main: the points are selected.
PointSurveyStart ==
    /\ user.script = "point-survey"
    /\ op = "none"
    /\ op' = "point-survey.loop"
    /\ todo' = get_points(dataset, user.num)
    /\ UNCHANGED <<args, user, result, dataset, fig, saved, xyz, rtp, back, raw, series, xs, smoothed, obs, file, history, units, disk, clock, runs, before, terms, props, panel, markers>>

\* src/point-survey.py, main: plot_point on the next point.
PointSurveyPlot ==
    /\ op = "point-survey.loop"
    /\ todo # <<>>
    /\ Plotted(plot_point(get_species(user)))
    /\ op' = IF IsRaised(result') THEN "point-survey.error"
             ELSE "point-survey.plotted"
    /\ UNCHANGED <<args, user, dataset, todo, saved, xyz, rtp, back, raw, series, xs, smoothed, obs, file, history, units, disk, clock, runs, before, terms, props, panel, markers>>

\* src/point-survey.py, main: savefig and close.
PointSurveySave ==
    /\ op = "point-survey.plotted"
    /\ saved' = Append(saved, Head(todo))
    /\ todo' = Tail(todo)
    /\ fig' = NoFig
    /\ result' = NoResult
    /\ disk' = disk \cup {StreamPath(Head(todo), ".png")}
    /\ op' = IF Tail(todo) = <<>> THEN "point-survey.done"
             ELSE "point-survey.loop"
    /\ UNCHANGED <<args, user, dataset, xyz, rtp, back, raw, series, xs, smoothed, obs, file, history, units, clock, runs, before, terms, props, panel, markers>>

\* src/streams3D.py, Figure.save: `verbosity > 0` raises TypeError on None,
\* before the figure is written.
figure_save(verbosity) ==
    IF verbosity.kind = "None" THEN Raised("TypeError", "save") ELSE PyNone

\* What streams3D's main left behind.
Streams3DSaved(err, path) ==
    /\ result' = err
    /\ op' = IF IsRaised(err) THEN "streams3D.error" ELSE "streams3D.done"
    /\ saved' = IF IsRaised(err) THEN saved ELSE Append(saved, 0)
    /\ disk' = IF IsRaised(err) THEN disk ELSE disk \cup {path}

\* src/streams3D.py, main: the figure is rendered, and saved with
\* verbosity=cli.get('verbosity', 0), which is the None argparse stored.
Streams3DMain ==
    /\ user.script = "streams3D"
    /\ op = "none"
    /\ Streams3DSaved(figure_save(Get(user, "verbosity")), build_figpath(user, clock))
    /\ UNCHANGED <<args, user, dataset, todo, fig, xyz, rtp, back, raw, series, xs, smoothed, obs, file, history, units, clock, runs, before, terms, props, panel, markers>>

\* What plot-node-history's main left behind, its savefig and close included.
HistoryPlotted(out, path) ==
    /\ result' = out.err
    /\ fig' = IF out.wrote THEN NoFig ELSE out.fig
    /\ saved' = IF out.wrote THEN Append(saved, 0) ELSE saved
    /\ disk' = IF out.wrote THEN disk \cup {path} ELSE disk
    /\ op' = IF IsRaised(out.err) THEN "plot-node-history.error"
             ELSE "plot-node-history.done"

\* src/plot-node-history.py, main.
PlotNodeHistoryMain ==
    /\ user.script = "plot-node-history"
    /\ op = "none"
    /\ HistoryPlotted(plot_node_history_main(user), HistoryPath(user))
    /\ UNCHANGED <<args, user, dataset, todo, xyz, rtp, back, raw, series, xs, smoothed, obs, file, history, units, clock, runs, before, terms, props, panel, markers>>

\* What write left behind: path.write_text replaces the file at `path`.
WrittenTo(w, path) ==
    /\ Written(w)
    /\ disk' = IF IsRaised(w) THEN disk ELSE disk \cup {path}

\* src/write-node-history.py, main.
WriteNodeHistoryMain ==
    /\ user.script = "write-node-history"
    /\ op = "none"
    /\ WrittenTo(write(obs.physics, obs), WritePath(user.writepath))
    /\ UNCHANGED <<args, user, dataset, todo, fig, saved, xyz, rtp, back, raw, series, xs, smoothed, obs, history, units, clock, runs, before, terms, props, panel, markers>>

\* src/support/interfaces.py, get_units, called on the arguments of a script.
CallGetUnits ==
    /\ user.script = "get_units"
    /\ op = "none"
    /\ op' = "get_units"
    /\ units' = get_units(user)
    /\ UNCHANGED <<args, user, result, dataset, todo, fig, saved, xyz, rtp, back, raw, series, xs, smoothed, obs, file, history, disk, clock, runs, before, terms, props, panel, markers>>

\* The states in which a run has ended, normally or with an exception.
Finished ==
    op \in {"stream-flux-energy.done", "stream-survey.done", "streams3D.done",
            "plot-node-history.done", "write", "point-survey.done"}
Failed ==
    op \in {"stream-flux-energy.error", "stream-survey.error", "streams3D.error",
            "plot-node-history.error", "write failed", "point-survey.error"}

\* The script is run again with the same arguments on the same input, in
\* the same second or a later one.  Every process starts afresh; the files
\* stay.
Rerun ==
    /\ Finished \/ Failed
    /\ runs < MaxRuns
    /\ runs' = runs + 1
    /\ before' = disk
    /\ \E later \in {0, 1} : clock' = clock + later
    /\ op' = "none"
    /\ result' = NoResult
    /\ todo' = <<>>
    /\ fig' = NoFig
    /\ saved' = <<>>
    /\ units' = NoUnits
    /\ file' = NoFile
    /\ UNCHANGED <<args, user, dataset, xyz, rtp, back, raw, series, xs, smoothed, obs, history, disk, terms, props, panel, markers>>

NextRuns ==
    \/ RunStreamFluxEnergy
    \/ StreamSurveyStart
    \/ StreamSurveyPlot
    \/ StreamSurveySave
    \/ PointSurveyStart
    \/ PointSurveyPlot
    \/ PointSurveySave
    \/ Streams3DMain
    \/ PlotNodeHistoryMain
    \/ WriteNodeHistoryMain
    \/ CallGetUnits
    \/ Rerun

SpecRuns == InitRuns /\ [][NextRuns]_vars

---------------------------------------------------------------------------
(* Claims about the runs *)

PerStream == user.script \in {"stream-flux-energy", "stream-survey"}

\* The streams -n selects: the one numbered N, or all of the dataset.
Selected ==
    IF user.num.kind = "int" THEN <<user.num.n>>
    ELSE [i \in 1..dataset |-> i - 1]

\* The ending of the name of a stream's figure.
Ending == IF user.script = "stream-flux-energy" THEN "-flux-energy.png" ELSE ".png"

InLoop == op \in {"stream-flux-energy.loop", "stream-survey.loop"}
HasPlotted == op \in {"stream-flux-energy.plotted", "stream-survey.plotted"}
LoopDone == op \in {"stream-flux-energy.done", "stream-survey.done"}

\* C15: in a per-stream script the streams saved so far and the streams
\* still to do are together the selected streams, in order: stream N alone
\* with -n N (N = 0 included), every stream of the dataset without -n.  A
\* save follows a plot and closes the figure, and a run that finishes has
\* saved each selected stream once, to the path named by the stream's stem.
C15_OneSavePerStream ==
    PerStream =>
        /\ (InLoop \/ HasPlotted \/ LoopDone) => saved \o todo = Selected
        /\ InLoop => fig = NoFig
        /\ HasPlotted => fig.curves > 0 /\ todo # <<>>
        /\ LoopDone =>
            /\ saved = Selected
            /\ fig = NoFig
            /\ disk = { StreamPath(Selected[i], Ending) : i \in 1..Len(Selected) }
            /\ Cardinality(disk) = Len(Selected)

C15_Witness ==
    /\ LoopDone
    /\ user.num.kind = "None"
    /\ dataset = MaxStreams
    /\ Len(saved) = MaxStreams

\* C16: a run that ends with an exception has saved no figure and has left
\* the files as they were when it started.
C16_NoOutputOnError == Failed => saved = <<>> /\ disk = before

C16_Witness ==
    /\ op = "stream-flux-energy.error"
    /\ result.site = "multi-valued"
    /\ dataset = MaxStreams

\* The run names its file by the time: streams3D without a (non-empty)
\* --figpath.
Stamped == user.script = "streams3D" /\ ~Truthy(user.figpath)

\* C17 as stated: after any second run on the same arguments and input,
\* the output files are those the first run left.
C17_Idempotent == (runs > 1 /\ Finished) => disk = before

\* C17: a second run leaves the output files as the first run left them,
\* whether it finishes or ends with an exception, except that a streams3D
\* run that saves without --figpath adds the file named by the time of the
\* run.
C17_IdempotentUnlessStamped ==
    (runs > 1 /\ (Finished \/ Failed)) =>
        IF Stamped /\ Finished THEN disk = before \cup {StampedPath(clock)}
        ELSE disk = before

C17_Witness ==
    /\ runs > 1
    /\ op = "streams3D.done"
    /\ Truthy(user.figpath)
    /\ clock > 0
    /\ disk # {}

\* The quantities for which a script offers a unit option.
UnitOptions ==
    CASE user.script = "stream-flux-energy" -> {"energy", "flux"}
      [] user.script = "stream-survey" -> {"time", "energy"}
      [] user.script = "get_units" -> {"time", "energy", "flux"}
      [] OTHER -> {}

\* C18: the unit used for a quantity is the unit the user gave with the
\* option of that quantity, and the default of UNITS without it.
C18_UnitsUsed ==
    units # NoUnits =>
        \A k \in UnitOptions :
            units[k] = IF Truthy(user[UnitOption(k)]) THEN user[UnitOption(k)]
                       ELSE UNITS[k]

---------------------------------------------------------------------------
(* Claims about the constraint of mhd-survey *)

\* main has resolved both constraints and called plot_stream.
ConstraintsResolved == PlotStreamCalled

NoTime == mhd_get_time(user).kind = "None"
NoLocation == mhd_get_location(user).kind = "None"

\* C19: plot_stream raises ValueError exactly when time and location are
\* both None or both not None; with a time alone it plots at that time
\* (against radius), with a location alone it plots at that location
\* (against time).
C19_ExactlyOneConstraint ==
    ConstraintsResolved =>
        /\ result = Raised("ValueError", "plot_stream") <=> (NoTime <=> NoLocation)
        /\ (~NoTime /\ NoLocation) => result = Plot("plot_at_time", mhd_get_time(user))
        /\ (NoTime /\ ~NoLocation) =>
               result = Plot("plot_at_location", mhd_get_location(user))

C19_Witness ==
    /\ ConstraintsResolved
    /\ user.time # PyNone
    /\ user.step = PyNone
    /\ NoLocation
    /\ result.kind = "plot"
    /\ result.f = "plot_at_time"

---------------------------------------------------------------------------
(* Acceleration terms, raw and smoothed *)

\* The groups plot_accel_terms is given: the 'filter' flag of each.
GroupLists ==
    { <<>>, <<FALSE>>, <<TRUE>>, <<FALSE, TRUE>>, <<TRUE, FALSE>>,
      <<TRUE, TRUE>>, <<FALSE, FALSE>> }

\* The density and the field magnitude a function holds.
Bound(rho, bmag) == [rho |-> rho, bmag |-> bmag]

\* The series the terms of one group were computed from.
Terms(filter_on, bound) ==
    [filter |-> filter_on, rho |-> bound.rho, bmag |-> bound.bmag]

\* if filter_on: rho = smooth(rho); bmag = smooth(bmag).
Smoothed(filter_on, bound) ==
    IF filter_on THEN Bound(smooth(bound.rho), smooth(bound.bmag)) ELSE bound

\* The histories read: flat at `b`, with at most one spike of 4.
Histories(bs) ==
    UNION { { ArrayOf([i \in 1..n |-> IF i = at THEN 4 ELSE b]) :
                b \in bs, at \in 0..n } : n \in Window..MaxLen }

InitAccel ==
    /\ op = "none"
    /\ args = PyNone
    /\ user = NoUser
    /\ result = NoResult
    /\ dataset = 0
    /\ todo \in GroupLists
    /\ fig = NoFig
    /\ saved = <<>>
    /\ xyz = NoPoint
    /\ rtp = NoPoint
    /\ back = NoPoint
    /\ raw = NoPoint
    /\ series \in { Bound(r, b) : r \in Histories({0, 1}), b \in Histories({1}) }
    /\ xs = NoSeries
    /\ smoothed = NoSeries
    /\ obs = NoObs
    /\ file = NoFile
    /\ history = NoHistory
    /\ units = NoUnits
    /\ disk = {}
    /\ clock = 0
    /\ runs = 1
    /\ before = {}
    /\ terms = <<>>
    /\ props = NoProps
    /\ panel = NoPanel
    /\ markers = <<>>

\* src/plot-node-dqdt.py, plot_accel_terms is called: rho and bmag are bound
\* to the arrays passed.  (`smoothed` keeps those arrays smoothed once, to
\* compare with.)
CallPlotAccelTerms ==
    /\ op = "none"
    /\ xs' = series
    /\ smoothed' = Smoothed(TRUE, series)
    /\ op' = IF todo = <<>> THEN "plot_accel_terms.done" ELSE "plot_accel_terms.loop"
    /\ UNCHANGED <<args, user, result, dataset, todo, fig, saved, xyz, rtp, back, raw, series, obs, file, history, units, disk, clock, runs, before, terms, props, panel, markers>>

\* src/plot-node-dqdt.py, plot_accel_terms: one turn of the loop over the
\* groups, which ends with plt.plot of each of the four terms.
PlotAccelTermsGroup ==
    /\ op = "plot_accel_terms.loop"
    /\ xs' = Smoothed(Head(todo), xs)
    /\ terms' = Append(terms, Terms(Head(todo), xs'))
    /\ fig' = [fig EXCEPT !.curves = @ + 4]
    /\ todo' = Tail(todo)
    /\ op' = IF Tail(todo) = <<>> THEN "plot_accel_terms.done" ELSE "plot_accel_terms.loop"
    /\ UNCHANGED <<args, user, result, dataset, saved, xyz, rtp, back, raw, series, smoothed, obs, file, history, units, disk, clock, runs, before, props, panel, markers>>

\* src/plot-node-history.py, plot_dqdt_history is called: it plots a raw
\* group, then a smoothed one.
CallPlotDqdtHistory ==
    /\ op = "none"
    /\ todo' = <<FALSE, TRUE>>
    /\ smoothed' = Smoothed(TRUE, series)
    /\ op' = "plot_dqdt_history.loop"
    /\ UNCHANGED <<args, user, result, dataset, fig, saved, xyz, rtp, back, raw, series, xs, obs, file, history, units, disk, clock, runs, before, terms, props, panel, markers>>

\* src/plot-node-history.py, plot_fte_dqdt: rho and bmag are computed from
\* the stream at every call, and ax.plot draws each of the four terms.
PlotFteDqdt ==
    /\ op = "plot_dqdt_history.loop"
    /\ xs' = Smoothed(Head(todo), series)
    /\ terms' = Append(terms, Terms(Head(todo), xs'))
    /\ fig' = [fig EXCEPT !.curves = @ + 4]
    /\ todo' = Tail(todo)
    /\ op' = IF Tail(todo) = <<>> THEN "plot_dqdt_history.done" ELSE "plot_dqdt_history.loop"
    /\ UNCHANGED <<args, user, result, dataset, saved, xyz, rtp, back, raw, series, smoothed, obs, file, history, units, disk, clock, runs, before, props, panel, markers>>

NextAccel ==
    \/ CallPlotAccelTerms
    \/ PlotAccelTermsGroup
    \/ CallPlotDqdtHistory
    \/ PlotFteDqdt

SpecAccel == InitAccel /\ [][NextAccel]_vars

\* e times Denom^d: the same number in an array of a higher denominator.
Lifted(e, d) == El(e.a * Power(Denom, d), e.b * Power(Denom, d))

\* Two arrays hold the same numbers.
SameNumbers(x, y) ==
    /\ Len(x.v) = Len(y.v)
    /\ \A i \in 1..Len(x.v) :
           IF x.k <= y.k THEN Lifted(x.v[i], y.k - x.k) = y.v[i]
           ELSE x.v[i] = Lifted(y.v[i], x.k - y.k)

\* The series a group with this flag is to be computed from.
Expected(filter_on) == IF filter_on THEN smoothed ELSE series

\* C20: the terms of a group with the filter off are computed from the raw
\* density and field magnitude, those of a group with the filter on from
\* the raw series smoothed once, whatever groups came before.
C20_GroupsIndependent ==
    \A i \in 1..Len(terms) :
        /\ SameNumbers(terms[i].rho, Expected(terms[i].filter).rho)
        /\ SameNumbers(terms[i].bmag, Expected(terms[i].filter).bmag)

---------------------------------------------------------------------------
(* Claims about point-survey *)

\* C21: point-survey with -n N plots and saves point N alone, and every
\* point of the dataset only without -n.
C21_PointSelected ==
    op = "point-survey.done" =>
        IF user.num.kind = "None" THEN saved = [i \in 1..dataset |-> i - 1]
        ELSE saved = <<IntParse(user.num.s).val>>

---------------------------------------------------------------------------
(* The scale of the y axis *)

\* How many names --ylog is given, and how many quantities are plotted.
MaxNames == 2

\* src/plot-node-history.py, compute_yscales.
compute_yscales(ylog, quantities) ==
    IF ylog = PyList(<<>>) THEN [q \in Items(quantities) |-> "log"]
    ELSE LET named == IF Truthy(ylog) THEN Items(ylog.toks) ELSE {}
         IN  [q \in Items(quantities) \cup named |->
                 IF q \in named THEN "log" ELSE "linear"]

\* A variant of the test that wants a list that is not empty.
yscale_nonempty(ylog, name) ==
    IF ylog.kind = "list" /\ ylog.toks # <<>> /\ name \in Items(ylog.toks)
    THEN "log" ELSE "linear"

\* src/plot-node-history.py, plot_quantity_history: isinstance(ylog, list)
\* and (not ylog or name in ylog).
yscale(ylog, name) ==
    IF ylog.kind = "list" /\ (ylog.toks = <<>> \/ name \in Items(ylog.toks))
    THEN "log" ELSE "linear"

\* src/plot-node-history.py, main: every panel is made by subplot_mosaic
\* with the linear scale of a new Axes.
NewPanels(quantities) == [q \in Items(quantities) |-> "linear"]

\* src/plot-node-history.py, main, the loop over the quantities: the scale
\* of every panel when the loop ends.  plot_dqdt_history takes no ylog and
\* sets no scale; plot_quantity_history gets the observable first, whose
\* exception ends the loop, and sets the scale of its panel from the name
\* of the observable.
RECURSIVE PanelScales(_, _, _)
PanelScales(ylog, quantities, scales) ==
    IF quantities = <<>> THEN scales
    ELSE IF IsDqdt(Head(quantities)) THEN PanelScales(ylog, Tail(quantities), scales)
    ELSE IF IsRaised(get_observable(Head(quantities))) THEN scales
    ELSE PanelScales(ylog, Tail(quantities),
                     SetItem(scales, Head(quantities),
                             yscale(ylog, ObservableName(Head(quantities)).s)))

\* The panels drawn when the loop ends: those of the quantities before the
\* first exception.
RECURSIVE DrawnPanels(_)
DrawnPanels(quantities) ==
    IF quantities = <<>> THEN {}
    ELSE IF IsRaised(plot_history(Head(quantities))) THEN {}
    ELSE {Head(quantities)} \cup DrawnPanels(Tail(quantities))

\* SUBSETS of src/mhd-survey.py, and the panels of plot_stream.
SUBSETS == << <<"B">>, <<"U">>, <<"r", "h", "o">> >>

\* src/mhd-survey.py, plot_stream: the scale of each of the three panels.
mhd_yscales(ylog) ==
    LET names == IF ylog = PyList(<<>>) THEN Items(SUBSETS)
                 ELSE IF ylog.kind = "None" THEN {}
                 ELSE Items(ylog.toks)
    IN  [i \in 1..Len(SUBSETS) |-> IF SUBSETS[i] \in names THEN "log" ELSE "linear"]

\* The quantities asked for and the names given to --ylog.
\* Observables with a unit and without, dQ/dt, and brackets that RE does
\* not match.
QuantityPool ==
    { <<"B", "r">>, <<"r", "h", "o">>, <<"r", "h", "o", "U+00A0", "[", "g", "]">>,
      <<"d", "Q", "d", "t">>, <<"]", "[">> }

\* The names --ylog may be given: the quantities, and a panel of mhd-survey.
NamePool == QuantityPool \cup { <<"B">> }

YlogInputs ==
    {PyNone} \cup { PyList(t) : t \in UNION { [1..n -> NamePool] : n \in 0..MaxNames } }

\* The run of plot-node-history.py on the quantities.
HistoryRun(quantities) ==
    [script |-> "plot-node-history", quantities |-> quantities, n |-> 0,
     step |-> 0, shell |-> 0, num |-> PyNone]

InitYlog ==
    /\ op = "none"
    /\ args \in YlogInputs
    /\ user = NoUser
    /\ result = NoResult
    /\ dataset = 0
    /\ todo \in UNION { [1..n -> QuantityPool] : n \in 0..MaxNames }
    /\ fig = NoFig
    /\ saved = <<>>
    /\ xyz = NoPoint
    /\ rtp = NoPoint
    /\ back = NoPoint
    /\ raw = NoPoint
    /\ series = NoSeries
    /\ xs = NoSeries
    /\ smoothed = NoSeries
    /\ obs = NoObs
    /\ file = NoFile
    /\ history = NoHistory
    /\ units = NoUnits
    /\ disk = {}
    /\ clock = 0
    /\ runs = 1
    /\ before = {}
    /\ terms = <<>>
    /\ props = NoProps
    /\ panel = NoPanel
    /\ markers = <<>>

\* compute_yscales is called on the quantities.
CallComputeYscales ==
    /\ op = "none"
    /\ op' = "compute_yscales"
    /\ result' = compute_yscales(args, todo)
    /\ UNCHANGED <<args, user, dataset, todo, fig, saved, xyz, rtp, back, raw, series, xs, smoothed, obs, file, history, units, disk, clock, runs, before, terms, props, panel, markers>>

\* What plot-node-history's main left behind: the exception that ended it,
\* the scale of every panel and the panels drawn, its savefig and close
\* included.
PanelsPlotted(out, path, scales, drawn) ==
    /\ result' = [kind |-> "panels", err |-> out.err, scales |-> scales,
                  drawn |-> drawn]
    /\ fig' = IF out.wrote THEN NoFig ELSE out.fig
    /\ saved' = IF out.wrote THEN Append(saved, 0) ELSE saved
    /\ disk' = IF out.wrote THEN disk \cup {path} ELSE disk

\* src/plot-node-history.py, main, run with --ylog: one panel per quantity,
\* drawn by plot_dqdt_history or by plot_quantity_history, and one savefig
\* after the last.
PlotNodeHistoryPanels ==
    /\ op = "none"
    /\ op' = "plot-node-history"
    /\ PanelsPlotted(plot_node_history_main(HistoryRun(todo)),
                     HistoryPath(HistoryRun(todo)),
                     PanelScales(args, Unique(todo), NewPanels(todo)),
                     DrawnPanels(Unique(todo)))
    /\ UNCHANGED <<args, user, dataset, todo, xyz, rtp, back, raw, series, xs, smoothed, obs, file, history, units, clock, runs, before, terms, props, panel, markers>>

\* plot_stream of mhd-survey.py scales its panels.
MhdPlotStreamScales ==
    /\ op = "none"
    /\ op' = "mhd-survey.plot_stream"
    /\ result' = mhd_yscales(args)
    /\ UNCHANGED <<args, user, dataset, todo, fig, saved, xyz, rtp, back, raw, series, xs, smoothed, obs, file, history, units, disk, clock, runs, before, terms, props, panel, markers>>

NextYlog ==
    \/ CallComputeYscales
    \/ PlotNodeHistoryPanels
    \/ MhdPlotStreamScales

SpecYlog == InitYlog /\ [][NextYlog]_vars

\* The names given to --ylog.
Named == IF args.kind = "list" THEN Items(args.toks) ELSE {}

\* The policy: no names, every panel is log; no --ylog, every panel is
\* linear; names, a panel is log exactly when `named(panel)` holds.
Policy(scale, named) ==
    IF args = PyList(<<>>) THEN scale = "log"
    ELSE IF args.kind = "None" THEN scale = "linear"
    ELSE scale = "log" <=> named

\* C22 as stated: the three follow one policy on the names of the panels,
\* every panel of plot-node-history.py included, and compute_yscales agrees
\* with the scale of the panel on every quantity.
C22_SameScalePolicy ==
    /\ op = "compute_yscales" =>
           \A q \in Items(todo) : Policy(result[q], q \in Named)
    /\ op = "mhd-survey.plot_stream" =>
           \A i \in 1..Len(SUBSETS) : Policy(result[i], SUBSETS[i] \in Named)
    /\ op = "plot-node-history" =>
           \A q \in result.drawn :
               /\ Policy(result.scales[q], q \in Named)
               /\ result.scales[q] = compute_yscales(args, todo)[q]

\* C22: compute_yscales and plot_stream of mhd-survey.py follow the policy
\* on the names of the panels as written.  In plot-node-history.py the
\* panel of dQdt is linear whatever --ylog says; every other panel drawn
\* follows the policy on the name of its observable (the quantity without
\* its unit), and agrees with compute_yscales when the quantity is written
\* without a unit.
C22_SameScalePolicyByName ==
    /\ op = "compute_yscales" =>
           \A q \in Items(todo) : Policy(result[q], q \in Named)
    /\ op = "mhd-survey.plot_stream" =>
           \A i \in 1..Len(SUBSETS) : Policy(result[i], SUBSETS[i] \in Named)
    /\ op = "plot-node-history" =>
           \A q \in result.drawn :
               IF IsDqdt(q) THEN result.scales[q] = "linear"
               ELSE /\ Policy(result.scales[q], ObservableName(q).s \in Named)
                    /\ ObservableName(q).s = q =>
                           result.scales[q] = compute_yscales(args, todo)[q]

\* plot-node-history.py was run with a bare --ylog on dQdt and rho: the
\* panel of dQdt is linear and the panel of rho is log.
C22_Witness ==
    /\ op = "plot-node-history"
    /\ args = PyList(<<>>)
    /\ todo = << <<"d", "Q", "d", "t">>, <<"r", "h", "o">> >>
    /\ result.err = PyNone
    /\ result.scales[<<"d", "Q", "d", "t">>] = "linear"
    /\ result.scales[<<"r", "h", "o">>] = "log"
    /\ saved = <<0>>

---------------------------------------------------------------------------
(* streams3D: the properties of a panel *)

\* self._default of PanelProperties; False is the integer 0.
Defaults ==
    [k \in {"axis_fontsize", "axis_unit", "hide_axes", "eye_in_rtp"} |->
        CASE k = "axis_fontsize" -> PyInt(14)
          [] k = "hide_axes" -> PyInt(0)
          [] OTHER -> PyNone]

\* src/streams3D.py, PanelProperties.__init__: self._all.
NewAll(u) == [k \in DOMAIN Defaults \cup DOMAIN u |-> PyNone]

\* A search that prefers the default to the value of the user.
find_default_first(name, u) ==
    IF Get(Defaults, name).kind # "None" THEN Defaults[name]
    ELSE Get(u, name)

\* src/streams3D.py, PanelProperties._find.
find(name, u) ==
    IF Get(u, name).kind # "None" THEN u[name]
    ELSE IF Get(Defaults, name).kind # "None" THEN Defaults[name]
    ELSE PyNone

\* What an attribute access gives, and self._all after it.
Got(value, all) == [value |-> value, all |-> all]

\* src/streams3D.py, PanelProperties.__getattr__, from the value found on:
\* the value is kept in self._all.
Found(name, all, value) ==
    IF all[name].kind = "None" THEN Got(value, SetItem(all, name, value))
    ELSE Got(all[name], all)

\* src/streams3D.py, PanelProperties.__getattr__: reached for a name that is
\* no attribute of the object.
__getattr__(name, u, all) ==
    IF name \notin DOMAIN all THEN Got(Raised("PanelPropertyError", name), all)
    ELSE Found(name, all, find(name, u))

RangeKey(symbol) ==
    CASE symbol = "x" -> "xaxis_range" [] symbol = "y" -> "yaxis_range"
      [] symbol = "z" -> "zaxis_range"
KwsKey(symbol) ==
    CASE symbol = "x" -> "xaxis_kws" [] symbol = "y" -> "yaxis_kws"
      [] symbol = "z" -> "zaxis_kws"

\* The dictionary of axis parameters, as far as it depends on the user.
AxisKws(range, title, showticklabels) ==
    [kind |-> "dict", range |-> range, title |-> title,
     showticklabels |-> showticklabels]

\* f'{symbol} [{self.axis_unit}]' if self.axis_unit else f'{symbol}'.
AxisTitle(symbol, unit) ==
    IF Truthy(unit) THEN <<symbol, " ", "[">> \o unit.s \o <<"]">> ELSE <<symbol>>

\* src/streams3D.py, PanelProperties._build_axis_kws, from self.axis_unit on.
AxisKwsWith(symbol, u, unit) ==
    AxisKws(IF Truthy(Get(u, RangeKey(symbol))) THEN u[RangeKey(symbol)]
            ELSE Get(u, "axis_range"),
            IF Truthy(Get(u, "hide_axes")) THEN <<>> ELSE AxisTitle(symbol, unit.value),
            ~Truthy(Get(u, "hide_axes")))

\* src/streams3D.py, PanelProperties._build_axis_kws: self.axis_unit is read
\* (and kept in self._all) unless the axes are hidden.
build_axis_kws(symbol, u, all) ==
    IF Truthy(Get(u, "hide_axes")) THEN Got(AxisKwsWith(symbol, u, Got(PyNone, all)), all)
    ELSE Got(AxisKwsWith(symbol, u, __getattr__("axis_unit", u, all)),
             __getattr__("axis_unit", u, all).all)

\* The parameters built are stored in self._all under their key.
Stored(key, built) == Got(built.value, SetItem(built.all, key, built.value))

\* src/streams3D.py, PanelProperties.xaxis, .yaxis and .zaxis.
axis(symbol, u, all) ==
    IF Get(all, KwsKey(symbol)).kind = "None"
    THEN Stored(KwsKey(symbol), build_axis_kws(symbol, u, all))
    ELSE Got(all[KwsKey(symbol)], all)

\* A list of floats.
PyFloats(values) == [kind |-> "floats", values |-> values]

\* The camera where the user gives none: center, eye and up.
Center == <<F(0), F(0), F(0)>>
Eye == <<F(12500), F(12500), F(12500)>>
Up == <<F(0), F(0), F(Scale)>>

\* numpy.radians(d): a multiple of 90 degrees gives the float nearest to as
\* many quarter turns.
Radians(d) ==
    IF d.v % (90 * Scale) # 0 THEN F(RoundDiv(d.v * PiFx, 180 * Scale))
    ELSE IF d.v = 0 THEN F(0)
    ELSE IF d.v > 0 THEN Nearest(d.v \div (90 * Scale), 0)
    ELSE Neg(Nearest((-d.v) \div (90 * Scale), 0))

\* numerics.rtp2xyz(eye[0], numpy.radians(eye[1]), numpy.radians(eye[2])),
\* a tuple.
EyeFromRtp(eye) ==
    LET c == Cartesian(eye[1], Radians(eye[2]), Radians(eye[3]))
    IN  <<c.x, c.y, c.z>>

\* self.user.get(key), and `default` where that is None.
CameraPart(u, key, default) ==
    IF Get(u, key).kind = "None" THEN default ELSE u[key].values

\* dict(zip(['x', 'y', 'z'], values)).
ZipXyz(values) ==
    [k \in { <<"x", "y", "z">>[i] : i \in 1..(IF Len(values) < 3 THEN Len(values) ELSE 3) } |->
        values[CHOOSE i \in 1..3 : <<"x", "y", "z">>[i] = k]]

CameraDict(center, eye, up) ==
    [kind |-> "dict", center |-> ZipXyz(center), eye |-> ZipXyz(eye), up |-> ZipXyz(up)]

\* src/streams3D.py, PanelProperties.camera, where self._all holds none: an
\* eye of fewer than three values has no eye[1] or eye[2] to convert.
build_camera(u) ==
    IF Truthy(Get(u, "eye_in_rtp")) /\ Len(CameraPart(u, "camera_eye", Eye)) < 3
    THEN Raised("IndexError", "eye")
    ELSE CameraDict(CameraPart(u, "camera_center", Center),
                    IF Truthy(Get(u, "eye_in_rtp"))
                    THEN EyeFromRtp(CameraPart(u, "camera_eye", Eye))
                    ELSE CameraPart(u, "camera_eye", Eye),
                    CameraPart(u, "camera_up", Up))

\* src/streams3D.py, PanelProperties.camera.
camera(u, all) ==
    IF Get(all, "camera").kind # "None" THEN Got(all["camera"], all)
    ELSE IF IsRaised(build_camera(u)) THEN Got(build_camera(u), all)
    ELSE Stored("camera", Got(build_camera(u), all))

\* A dict as a value.
PyDict(items) == [kind |-> "dict", items |-> items]

\* The attributes a PanelProperties has without __getattr__: those set in
\* __init__ and the properties of the class.
Explicit ==
    {"title", "user", "_default", "_all", "default_values", "user_values",
     "xaxis", "yaxis", "zaxis", "camera"}

\* Attribute access on a PanelProperties: the attribute the object has, or
\* __getattr__.
getattr(name, u, all) ==
    CASE name = "title" -> Got(PyStr(<<>>), all)
      [] name \in {"user", "user_values"} -> Got(PyDict(u), all)
      [] name \in {"_default", "default_values"} -> Got(PyDict(Defaults), all)
      [] name = "_all" -> Got(PyDict(all), all)
      [] name = "xaxis" -> axis("x", u, all)
      [] name = "yaxis" -> axis("y", u, all)
      [] name = "zaxis" -> axis("z", u, all)
      [] name = "camera" -> camera(u, all)
      [] OTHER -> __getattr__(name, u, all)

\* The keyword arguments a PanelProperties is made from.
Range01 == PyIntList(<<0, 1>>)
Range05 == PyIntList(<<0, 5>>)
Rs == PyStr(<<"R", "s">>)

EyeGiven == PyFloats(<<F(2 * Scale), F(90 * Scale), F(0)>>)

Allowed(k) ==
    CASE k = "axis_fontsize" -> {PyInt(0), PyInt(20)}
      [] k = "axis_unit" -> {Rs}
      [] k = "hide_axes" -> {PyInt(1)}
      [] k = "xaxis_range" -> {PyNone, Range01}
      [] k = "axis_range" -> {Range05}
      [] k = "title" -> {Rs}
      [] k = "camera_eye" -> {EyeGiven}
      [] k = "eye_in_rtp" -> {PyInt(1)}

AxisKeys ==
    {"axis_fontsize", "axis_unit", "hide_axes", "xaxis_range", "axis_range", "title"}
CameraKeys == {"camera_eye", "eye_in_rtp"}
UserKeys == AxisKeys \cup CameraKeys

\* The dictionaries over some of the keys `keys`.
UsersOf(keys) ==
    UNION { { f \in [K -> UNION { Allowed(k) : k \in keys }] :
                \A k \in K : f[k] \in Allowed(k) } : K \in SUBSET keys }

PropertyUsers == UsersOf(AxisKeys) \cup UsersOf(CameraKeys)

\* The names requested.
Names ==
    UserKeys \cup {"colorscale", "xaxis_kws", "yaxis", "camera", "default_values", "_all"}

InitProps ==
    /\ op = "none"
    /\ args = PyNone
    /\ user \in PropertyUsers
    /\ result = NoResult
    /\ dataset = 0
    /\ todo = <<>>
    /\ fig = NoFig
    /\ saved = <<>>
    /\ xyz = NoPoint
    /\ rtp = NoPoint
    /\ back = NoPoint
    /\ raw = NoPoint
    /\ series = NoSeries
    /\ xs = NoSeries
    /\ smoothed = NoSeries
    /\ obs = NoObs
    /\ file = NoFile
    /\ history = NoHistory
    /\ units = NoUnits
    /\ disk = {}
    /\ clock = 0
    /\ runs = 1
    /\ before = {}
    /\ terms = <<>>
    /\ props = NewAll(user)
    /\ panel = NoPanel
    /\ markers = <<>>

\* What an access left behind.
Accessed(got) ==
    /\ result' = got.value
    /\ props' = got.all

\* A property is requested by name.
GetProperty ==
    /\ \E name \in Names :
        /\ args' = name
        /\ Accessed(getattr(name, user, props))
    /\ op' = "getattr"
    /\ UNCHANGED <<user, dataset, todo, fig, saved, xyz, rtp, back, raw, series, xs, smoothed, obs, file, history, units, disk, clock, runs, before, terms, panel, markers>>

\* The parameters of an axis are requested.
GetAxis ==
    /\ \E symbol \in {"x", "y", "z"} :
        /\ args' = symbol
        /\ Accessed(axis(symbol, user, props))
    /\ op' = "axis"
    /\ UNCHANGED <<user, dataset, todo, fig, saved, xyz, rtp, back, raw, series, xs, smoothed, obs, file, history, units, disk, clock, runs, before, terms, panel, markers>>

\* The camera is requested.
GetCamera ==
    /\ Accessed(camera(user, props))
    /\ args' = "camera"
    /\ op' = "camera"
    /\ UNCHANGED <<user, dataset, todo, fig, saved, xyz, rtp, back, raw, series, xs, smoothed, obs, file, history, units, disk, clock, runs, before, terms, panel, markers>>

NextProps ==
    \/ GetProperty
    \/ GetAxis
    \/ GetCamera

SpecProps == InitProps /\ [][NextProps]_vars

\* The value the claim gives to an implied property.
Implied(name) ==
    IF name \in DOMAIN user /\ user[name].kind # "None" THEN user[name]
    ELSE IF name \in DOMAIN Defaults THEN Defaults[name]
    ELSE PyNone

\* What an attribute of the object gives: the title set in __init__, or a
\* dictionary.
OwnValue(name, value) ==
    IF name = "title" THEN value = PyStr(<<>>) ELSE value.kind = "dict"

\* The keys an axis or the camera stores its parameters under.
StoredKeys == {"xaxis_kws", "yaxis_kws", "zaxis_kws", "camera"}

\* The order of the lookup, and the range of an axis.
LookupOrder(stored) ==
    /\ op = "getattr" =>
        IF args \in Explicit THEN OwnValue(args, result)
        ELSE IF stored THEN result = props[args]
        ELSE IF args \notin DOMAIN Defaults \cup DOMAIN user THEN result = Raised("PanelPropertyError", args)
        ELSE result = Implied(args)
    /\ (op = "axis" /\ RangeKey(args) \in DOMAIN user /\ user[RangeKey(args)].kind # "None")
           => result.range = user[RangeKey(args)]
    /\ (op = "axis" /\ Get(user, RangeKey(args)).kind = "None")
           => result.range = Get(user, "axis_range")

\* C23 as stated: a property the class defines comes first, then the
\* implied ones, the value of the user before the default; a name that is
\* neither a default nor a key of the user raises PanelPropertyError; the
\* range of an axis is the one given for that axis, else the global one.
C23_PropertyLookup == LookupOrder(FALSE)

\* C23: as above, except that a key under which the parameters of an axis
\* or of the camera have been stored names those parameters from then on,
\* and raises no PanelPropertyError.
C23_PropertyLookupOfKnownNames ==
    LookupOrder(args \in StoredKeys /\ args \in DOMAIN props)

C23_Witness ==
    /\ op = "getattr"
    /\ args = "axis_fontsize"
    /\ "axis_fontsize" \in DOMAIN user
    /\ user["axis_fontsize"] = PyInt(20)
    /\ result = PyInt(20)

---------------------------------------------------------------------------
(* Elapsed times *)

\* The most days an elapsed time holds.
MaxDays == 11

\* f'{n:02}'.
Pad2(n) ==
    IF n < 0 THEN <<"-">> \o StrNat(-n)
    ELSE IF n < 10 THEN <<"0">> \o StrNat(n) ELSE StrNat(n)

\* f'{n:06}' of a natural number below 10^6.
Pad6(n) == [i \in 1..(6 - Len(StrNat(n))) |-> "0"] \o StrNat(n)

\* A time of the simulation: whole days (below zero in a negative time),
\* hours, minutes, seconds and microseconds.
Timedelta(d, h, m, sec, us) ==
    [kind |-> "timedelta", d |-> d, h |-> h, m |-> m, s |-> sec, us |-> us]

\* str(datetime.timedelta): 'H:MM:SS', after 'D day, ' or 'D days, ' when
\* there are days, and before '.UUUUUU' when there are microseconds.
StrTimedelta(t) ==
    (IF t.d = 0 THEN <<>>
     ELSE (IF t.d < 0 THEN <<"-">> ELSE <<>>) \o StrNat(Abs(t.d)) \o <<" ", "d", "a", "y">>
              \o (IF Abs(t.d) = 1 THEN <<>> ELSE <<"s">>) \o <<",", " ">>)
    \o StrNat(t.h) \o <<":">> \o Pad2(t.m) \o <<":">> \o Pad2(t.s)
    \o (IF t.us = 0 THEN <<>> ELSE <<".">> \o Pad6(t.us))

\* 'day' in time.
HasDay(time) ==
    \E i \in 1..(Len(time) - 2) : SubSeq(time, i, i + 2) = <<"d", "a", "y">>

\* a / b rounded to the nearest whole number, to the even one of two that
\* are as near (b > 0).
RoundHalfEven(a, b) ==
    LET q == (a - (a % b)) \div b
        r == a % b
    IN  IF 2 * r < b THEN q
        ELSE IF 2 * r > b THEN q + 1
        ELSE IF q % 2 = 0 THEN q ELSE q + 1

\* round(x) of the float m * 10^e.
Round(x) ==
    IF x.e >= 0 THEN x.m * Power(10, x.e)
    ELSE IF -x.e > 9 THEN 0
    ELSE RoundHalfEven(x.m, Power(10, -x.e))

\* What split_dhms returns.
Dhms(d, h, m, sec) == [kind |-> "dhms", d |-> d, h |-> h, m |-> m, s |-> sec]

\* h, m, s = hms.split(':'), and int(d[0]), int(h), int(m), round(float(s))
\* in that order, where `day` is d[0] as a token.
Hms(day, fields) ==
    IF Len(fields) # 3 THEN Raised("ValueError", "unpack")
    ELSE IF ~IntParse(day).ok \/ ~IntParse(fields[1]).ok \/ ~IntParse(fields[2]).ok
    THEN Raised("ValueError", "int")
    ELSE IF ~FloatParse(fields[3]).ok THEN Raised("ValueError", "float")
    ELSE IF "special" \in DOMAIN FloatParse(fields[3]).val
    THEN (IF FloatParse(fields[3]).val.special = "nan" THEN Raised("ValueError", "round")
          ELSE Raised("OverflowError", "round"))
    ELSE Dhms(IntParse(day).val, IntParse(fields[1]).val, IntParse(fields[2]).val,
              Round(FloatParse(fields[3]).val))

\* src/support/labels.py, split_dhms.
split_dhms(time) ==
    IF HasDay(time)
    THEN IF Len(Split(time, ",")) # 2 THEN Raised("ValueError", "unpack")
         ELSE IF Len(Split(Split(time, ",")[2], ":")) # 3 THEN Raised("ValueError", "unpack")
         ELSE IF Split(time, ",")[1] = <<>> THEN Raised("IndexError", "d")
         ELSE Hms(<<Split(time, ",")[1][1]>>, Split(Split(time, ",")[2], ":"))
    ELSE Hms(<<"0">>, Split(time, ":"))

\* f'{hh}:{mm}:{ss}' with h += 24 * d.
Formatted(t) == Pad2(t.h + 24 * t.d) \o <<":">> \o Pad2(t.m) \o <<":">> \o Pad2(t.s)

\* src/support/labels.py, format_elapsed_time.
format_elapsed_time(time) ==
    IF IsRaised(split_dhms(time)) THEN split_dhms(time)
    ELSE PyStr(Formatted(split_dhms(time)))

InitElapsed ==
    /\ op = "none"
    /\ args \in { Timedelta(d, h, m, sec, us) :
                    d \in (-1)..MaxDays, h \in {0, 5, 23}, m \in {0, 59}, sec \in {0, 7},
                    us \in {0, 500000} }
    /\ user = NoUser
    /\ result = NoResult
    /\ dataset = 0
    /\ todo = <<>>
    /\ fig = NoFig
    /\ saved = <<>>
    /\ xyz = NoPoint
    /\ rtp = NoPoint
    /\ back = NoPoint
    /\ raw = NoPoint
    /\ series = NoSeries
    /\ xs = NoSeries
    /\ smoothed = NoSeries
    /\ obs = NoObs
    /\ file = NoFile
    /\ history = NoHistory
    /\ units = NoUnits
    /\ disk = {}
    /\ clock = 0
    /\ runs = 1
    /\ before = {}
    /\ terms = <<>>
    /\ props = NoProps
    /\ panel = NoPanel
    /\ markers = <<>>

\* split_dhms is called on the text of the time.
CallSplitDhms ==
    /\ op = "none"
    /\ op' = "split_dhms"
    /\ result' = split_dhms(StrTimedelta(args))
    /\ UNCHANGED <<args, user, dataset, todo, fig, saved, xyz, rtp, back, raw, series, xs, smoothed, obs, file, history, units, disk, clock, runs, before, terms, props, panel, markers>>

\* src/support/labels.py, Time._get_partial_time_stamp: format_elapsed_time
\* is called on the text of the time.
CallFormatElapsedTime ==
    /\ op = "none"
    /\ op' = "format_elapsed_time"
    /\ result' = format_elapsed_time(StrTimedelta(args))
    /\ UNCHANGED <<args, user, dataset, todo, fig, saved, xyz, rtp, back, raw, series, xs, smoothed, obs, file, history, units, disk, clock, runs, before, terms, props, panel, markers>>

NextElapsed ==
    \/ CallSplitDhms
    \/ CallFormatElapsedTime

SpecElapsed == InitElapsed /\ [][NextElapsed]_vars

\* C24: for a time of d days, h hours, m minutes and s seconds, whatever
\* d >= 0, split_dhms gives d as the days, and the hours of what
\* format_elapsed_time gives are 24 * d + h.
C24_HoursCountDays ==
    /\ (op = "split_dhms" /\ args.d >= 0) => result.d = args.d
    /\ (op = "format_elapsed_time" /\ args.d >= 0) =>
           IntParse(Split(result.s, ":")[1]).val = 24 * args.d + args.h

---------------------------------------------------------------------------
(* streams3D: the panel, its elements and their markers *)

\* The most elements a panel holds, and the most times its traces are read.
MaxElements == 2
MaxReads == 2

\* The radial distance of each node of a stream, and the value observed at
\* each node, by the ID of the stream.
Radii == << <<1, 2>>, <<1, 3>>, <<2, 3>> >>
Observed == << <<5, 7>>, <<1, 9>>, <<4, 4>> >>

\* A marker dictionary: its size (a number, or a list once resized), its
\* 'resize' entry (absent once popped) and its colorscale.
Marker(size, resize, cmin, cmid, cmax) ==
    [size |-> size, resize |-> resize, cmin |-> cmin, cmid |-> cmid, cmax |-> cmax]

\* A number is the fraction n / d in lowest terms (n >= 0, d > 0): what the
\* float approximates.
RECURSIVE Gcd(_, _)
Gcd(a, b) == IF b = 0 THEN a ELSE Gcd(b, a % b)
Q(n, d) == [n |-> n \div Gcd(n, d), d |-> d \div Gcd(n, d)]

Number(v) == [kind |-> "number", v |-> v]
Sizes(v) == [kind |-> "sizes", v |-> v]
NoResize == [kind |-> "absent"]
EmptyResize == [kind |-> "empty"]
Resize(cli) ==
    [kind |-> "resize", cadence |-> cli.resize_every, scale |-> cli.resize_by,
     power |-> cli.resize_power]

\* The styles build_marker knows.
Styles == {"background", "observer", "highlighted"}

\* src/streams3D.py, build_marker: 'active' if style in {'observer',
\* 'highlighted'} else 'background'.
category(style) ==
    IF style \in {"observer", "highlighted"} THEN "active" ELSE "background"

\* src/streams3D.py, build_marker, with define_base_marker and the update
\* of the style: the colorscale is that of the observer markers alone, and
\* a marker of no known style is the base marker, which has no 'resize'.
build_marker(cli, style) ==
    Marker(Number(Q(cli.marker_size, 1)),
           IF style \notin Styles THEN NoResize
           ELSE IF cli.resize \in {"all", category(style)} THEN Resize(cli)
           ELSE EmptyResize,
           IF style = "observer" THEN cli.cmin ELSE PyNone,
           IF style = "observer" THEN cli.cmid ELSE PyNone,
           IF style = "observer" THEN cli.cmax ELSE PyNone)

\* A Stream or an ObserverStream: its ID, the marker dictionary it refers
\* to, and the cmin that dictionary held when the stream was made.
Element(id, style, marker, cmin) ==
    [id |-> id, style |-> style, marker |-> marker, cmin |-> cmin]

\* src/streams3D.py, Stream._radial_resize: size * (r / r[0]) ** power.
radial_resize(specs, sizes, r) ==
    IF specs.power <= 0 THEN sizes
    ELSE [i \in 1..(IF Len(sizes) < Len(r) THEN Len(sizes) ELSE Len(r)) |->
             Q(sizes[i].n * Power(r[i], specs.power),
               sizes[i].d * Power(r[1], specs.power))]

\* src/streams3D.py, Stream._periodic_resize.
periodic_resize(specs, sizes) ==
    [i \in 1..Len(sizes) |->
        IF (i - 1) % specs.cadence = 0 THEN Q(sizes[i].n * specs.scale, sizes[i].d)
        ELSE sizes[i]]

\* src/streams3D.py, Stream.resize_marker.
resize_marker(m, specs, r) ==
    [m EXCEPT !.size =
        Sizes(periodic_resize(specs,
                  radial_resize(specs,
                      IF m.size.kind = "sizes" THEN m.size.v
                      ELSE [i \in 1..Len(r) |-> m.size.v], r)))]


\* src/streams3D.py, Stream.marker: 'resize' is popped from the dictionary,
\* and the marker is resized by it unless it is empty.
marker_property(m, r) ==
    IF m.resize.kind = "resize"
    THEN [resize_marker(m, m.resize, r) EXCEPT !.resize = NoResize]
    ELSE [m EXCEPT !.resize = NoResize]

\* The marker dictionaries after element.marker has been read.
Read(e, heap) ==
    [heap EXCEPT ![e.marker] = marker_property(heap[e.marker], Radii[e.id + 1])]

RECURSIVE ReadAll(_, _)
ReadAll(es, heap) ==
    IF es = <<>> THEN heap ELSE ReadAll(Tail(es), Read(Head(es), heap))

\* src/streams3D.py, Panel.observer_elements.
observer_elements(es) == SelectSeq(es, LAMBDA e : e.style = "observer")

\* src/streams3D.py, Panel.global_value: the one value the observer
\* markers hold under `name`, None when they hold several.
global_value(name, es, heap) ==
    IF Cardinality({ heap[es[i].marker][name] : i \in 1..Len(es) }) = 1
    THEN heap[es[1].marker][name]
    ELSE PyNone

\* The cached value of a colorscale property of the panel, or the global
\* value.
Cached(p, name, es, heap) ==
    IF p[name].kind = "None" THEN global_value(name, es, heap) ELSE p[name]

AllObserved(es) == UNION { Items(Observed[es[i].id + 1]) : i \in 1..Len(es) }
Least(S) == CHOOSE x \in S : \A y \in S : x <= y
Greatest(S) == CHOOSE x \in S : \A y \in S : y <= x

\* src/streams3D.py, Panel.set_cmin_cmax, when the midpoint is None.
Extreme(cached, derived, cmid) ==
    IF cmid.kind = "None" /\ cached.kind = "None" THEN PyInt(derived) ELSE cached

\* src/streams3D.py, Panel.set_global_colorscale: the panel afterwards.
Colorscaled(p, es, heap) ==
    [p EXCEPT
        !.cmid = Cached(p, "cmid", es, heap),
        !.cmin = Extreme(Cached(p, "cmin", es, heap), Least(AllObserved(es)),
                         Cached(p, "cmid", es, heap)),
        !.cmax = Extreme(Cached(p, "cmax", es, heap), Greatest(AllObserved(es)),
                         Cached(p, "cmid", es, heap))]

\* src/streams3D.py, Panel.set_global_colorscale: the markers afterwards.
Colored(p, es, heap) ==
    [k \in DOMAIN heap |->
        IF \E i \in 1..Len(es) : es[i].marker = k
        THEN [heap[k] EXCEPT !.cmin = p.cmin, !.cmid = p.cmid, !.cmax = p.cmax]
        ELSE heap[k]]

\* A rendered trace: plotly keeps the marker as it is when the trace is made.
Trace(e, m) ==
    [id |-> e.id, style |-> e.style, size |-> m.size, cmin |-> m.cmin,
     cmid |-> m.cmid, cmax |-> m.cmax]

\* The panel and the markers.
Both(p, heap) == [panel |-> p, markers |-> heap]

\* src/streams3D.py, Panel.traces, the loop: every element is rendered and
\* its trace appended to self._traces.
RECURSIVE Rendered(_, _, _)
Rendered(es, p, heap) ==
    IF es = <<>> THEN Both(p, heap)
    ELSE Rendered(Tail(es),
                  [p EXCEPT !.traces =
                      Append(p.traces, Trace(Head(es), Read(Head(es), heap)[Head(es).marker]))],
                  Read(Head(es), heap))


\* src/streams3D.py, Panel.traces.
traces(p, heap) ==
    IF observer_elements(p.elements) = <<>> THEN Rendered(p.elements, p, heap)
    ELSE Rendered(p.elements,
                  Colorscaled(p, observer_elements(p.elements),
                              ReadAll(observer_elements(p.elements), heap)),
                  Colored(Colorscaled(p, observer_elements(p.elements),
                                      ReadAll(observer_elements(p.elements), heap)),
                          observer_elements(p.elements),
                          ReadAll(observer_elements(p.elements), heap)))

\* src/streams3D.py, Panel.__init__.
NewPanel ==
    [elements |-> <<>>, traces |-> <<>>, cmin |-> PyNone, cmid |-> PyNone,
     cmax |-> PyNone, reads |-> 0]

\* The arguments of a run of streams3D.
Clis ==
    [resize : {"none", "background", "active", "all"}, resize_every : {1, 2}, resize_by : {2},
     resize_power : {0, 2}, marker_size : {1},
     cmin : {PyNone, PyInt(0)}, cmid : {PyNone, PyInt(0)}, cmax : {PyNone, PyInt(8)},
     axis_unit : {PyNone, Rs}]

InitPanel ==
    /\ op = "none"
    /\ args = PyNone
    /\ user \in Clis
    /\ result = NoResult
    /\ dataset = 0
    /\ todo = <<>>
    /\ fig = NoFig
    /\ saved = <<>>
    /\ xyz = NoPoint
    /\ rtp = NoPoint
    /\ back = NoPoint
    /\ raw = NoPoint
    /\ series = NoSeries
    /\ xs = NoSeries
    /\ smoothed = NoSeries
    /\ obs = NoObs
    /\ file = NoFile
    /\ history = NoHistory
    /\ units = NoUnits
    /\ disk = {}
    /\ clock = 0
    /\ runs = 1
    /\ before = {}
    /\ terms = <<>>
    /\ props = NewAll(user)
    /\ panel = NewPanel
    /\ markers = <<>>

\* The streams of one style, made with one marker dictionary.
Created(ids, style, marker, cmin) ==
    [i \in 1..Len(ids) |-> Element(ids[i], style, marker, cmin)]

\* src/streams3D.py, main: create_background_streams,
\* create_highlighted_streams or create_observer_streams builds one marker
\* and a stream per ID, and
\* Panel.add_many adds the streams to the panel.
AddMany ==
    /\ \E style \in Styles, ids \in {<<0>>, <<1>>, <<0, 1>>, <<2, 0>>} :
        /\ Len(panel.elements) + Len(ids) <= MaxElements
        /\ markers' = Append(markers, build_marker(user, style))
        /\ panel' = [panel EXCEPT
                        !.elements = @ \o Created(ids, style, Len(markers) + 1,
                                                 build_marker(user, style).cmin)]
    /\ op' = "add_many"
    /\ UNCHANGED <<args, user, result, dataset, todo, fig, saved, xyz, rtp, back, raw, series, xs, smoothed, obs, file, history, units, disk, clock, runs, before, terms, props>>

\* src/streams3D.py, Panel.add_one, of an ObserverStream made with a marker
\* of its own.
AddOne ==
    /\ Len(panel.elements) < MaxElements
    /\ \E id \in {0, 1}, cmin \in {PyNone, PyInt(3)} :
        /\ markers' = Append(markers,
                             [build_marker(user, "observer") EXCEPT !.cmin = cmin])
        /\ panel' = [panel EXCEPT
                        !.elements = Append(@, Element(id, "observer", Len(markers) + 1, cmin))]
    /\ op' = "add_one"
    /\ UNCHANGED <<args, user, result, dataset, todo, fig, saved, xyz, rtp, back, raw, series, xs, smoothed, obs, file, history, units, disk, clock, runs, before, terms, props>>

\* What a read of Panel.traces left behind.
TracesRead(both) ==
    /\ panel' = [both.panel EXCEPT !.reads = @ + 1]
    /\ markers' = both.markers
    /\ result' = both.panel.traces

\* Panel.traces is read.
ReadTraces ==
    /\ panel.reads < MaxReads
    /\ TracesRead(traces(panel, markers))
    /\ op' = "traces"
    /\ UNCHANGED <<args, user, dataset, todo, fig, saved, xyz, rtp, back, raw, series, xs, smoothed, obs, file, history, units, disk, clock, runs, before, terms, props>>

\* src/streams3D.py, Figure._update_properties: the axes, the camera and the
\* font size are read from the properties of the panel in turn; each read
\* keeps what it built in self._all, and the exception of the camera ends
\* the reads.
_update_properties(u, all) ==
    LET x == axis("x", u, all)
        y == axis("y", u, x.all)
        z == axis("z", u, y.all)
        c == camera(u, z.all)
    IN  IF IsRaised(c.value) THEN c
        ELSE Got(PyNone, getattr("axis_fontsize", u, c.all).all)

\* src/streams3D.py, Figure.render, of the one panel main adds, whose
\* properties are made from the arguments of the run: a new figure is set
\* up, _draw_panel_traces reads the traces of the panel and adds them to it,
\* and _update_properties reads the properties of the panel.
FigureRender ==
    /\ panel.reads < MaxReads
    /\ TracesRead(traces(panel, markers))
    /\ fig' = [curves |-> Len(traces(panel, markers).panel.traces), seed |-> FALSE]
    /\ props' = _update_properties(user, props).all
    /\ op' = "render"
    /\ UNCHANGED <<args, user, dataset, todo, saved, xyz, rtp, back, raw, series, xs, smoothed, obs, file, history, units, disk, clock, runs, before, terms>>

NextPanel ==
    \/ AddMany
    \/ AddOne
    \/ ReadTraces
    \/ FigureRender

SpecPanel == InitPanel /\ [][NextPanel]_vars

\* The traces have just been read.
TracesJustRead == op \in {"traces", "render"}

\* C25: whatever was added and read before, the traces read are one per
\* element of the panel, in the order the elements were added.
C25_OneTracePerElement ==
    TracesJustRead =>
        /\ Len(result) = Len(panel.elements)
        /\ \A i \in 1..Len(result) :
               /\ result[i].id = panel.elements[i].id
               /\ result[i].style = panel.elements[i].style


\* Marker resizing is enabled for the streams of a style.
Resizing(cli, style) == cli.resize \in {"all", category(style)}

\* The sizes the radii of one stream give: radial scaling by (r/r[0])**power,
\* then every cadence-th marker multiplied by scale.
OwnSizes(cli, r) ==
    [i \in 1..Len(r) |->
        Q(cli.marker_size * Power(r[i], cli.resize_power)
              * (IF (i - 1) % cli.resize_every = 0 THEN cli.resize_by ELSE 1),
          Power(r[1], cli.resize_power))]

\* C27: with marker resizing enabled, the marker sizes of every rendered
\* stream are one per node of that stream, computed from its own radii.
C27_OwnMarkerSizes ==
    TracesJustRead =>
        \A i \in 1..Len(result) :
            Resizing(user, result[i].style) =>
                result[i].size = Sizes(OwnSizes(user, Radii[result[i].id + 1]))


\* The observer streams of the panel.
Observers == observer_elements(panel.elements)

\* The cmin the observer streams were given, when they were all given one
\* and the same; None otherwise.
GivenCmin ==
    IF Cardinality({ Observers[i].cmin : i \in 1..Len(Observers) }) = 1
    THEN Observers[1].cmin ELSE PyNone

\* The value the claim gives a limit of the colorscale: the one supplied
\* when there is one, and a data-derived one only when there is no midpoint.
Limit(given, derived) ==
    IF given.kind # "None" THEN given
    ELSE IF user.cmid.kind = "None" THEN PyInt(derived) ELSE PyNone

\* The colorscale of the panel is as the claim has it.
GlobalColorscale ==
    /\ \A i \in 1..Len(Observers) :
           /\ markers[Observers[i].marker].cmin = panel.cmin
           /\ markers[Observers[i].marker].cmid = panel.cmid
           /\ markers[Observers[i].marker].cmax = panel.cmax
    /\ panel.cmid = user.cmid
    /\ panel.cmin = Limit(GivenCmin, Least(AllObserved(Observers)))
    /\ panel.cmax = Limit(user.cmax, Greatest(AllObserved(Observers)))

\* C26: once the traces of a panel with an observer stream have been read,
\* every observer marker carries the colorscale of the panel; its limits
\* are those supplied, or else the extremes of all observed values when
\* there is no midpoint.
C26_GlobalColorscale ==
    (TracesJustRead /\ Observers # <<>>) => GlobalColorscale


---------------------------------------------------------------------------
(* write-node-history.py and plot-node-history.py: the nodes of a history *)

\* The most times and the most shells of a stream.
MaxTimes == 3
MaxShells == 3

\* The observable of a stream: its dimensions, and an array of ntimes by
\* nshells values, each value telling its time and its shell.
NodeArray(ntimes, nshells, dimensions) ==
    [ntimes |-> ntimes, nshells |-> nshells, dimensions |-> dimensions]
Cell(t, s) == 10 * t + s

\* array[t, s, ...]: a negative index counts from the end, and an index
\* outside the axis raises IndexError.
Indexed(array, t, s) ==
    IF t < -array.ntimes \/ t >= array.ntimes \/ s < -array.nshells \/ s >= array.nshells
    THEN Raised("IndexError", "array")
    ELSE PyInt(Cell(IF t < 0 THEN t + array.ntimes ELSE t,
                    IF s < 0 THEN s + array.nshells ELSE s))

\* numpy.squeeze of a list of values read: an array, a scalar when there is
\* a single value, or the error the first failing read raised.
Squeeze(values) ==
    IF \E i \in 1..Len(values) : IsRaised(values[i])
    THEN values[CHOOSE i \in 1..Len(values) :
                    /\ IsRaised(values[i])
                    /\ \A j \in 1..(i - 1) : ~IsRaised(values[j])]
    ELSE IF Len(values) = 1 THEN [kind |-> "scalar", v |-> values[1].n]
    ELSE [kind |-> "array", v |-> [i \in 1..Len(values) |-> values[i].n]]

\* The reads of [array[t, s, ...] for t, s in pairs] that returned: the list
\* comprehension stops at the first read that raises.
Returned(values) ==
    Cardinality({ i \in 1..Len(values) : \A j \in 1..i : ~IsRaised(values[j]) })

\* The (time index, shell index) pairs read from the array, and the history
\* they give: the first read that raises ends the reads, and its IndexError
\* is the outcome.
ReadHistory(pairs, values) ==
    [kind |-> "history", pairs |-> SubSeq(pairs, 1, Returned(values)),
     value |-> Squeeze(values)]

NodeHistory(array, pairs) ==
    ReadHistory(pairs, [i \in 1..Len(pairs) |-> Indexed(array, pairs[i][1], pairs[i][2])])

\* zip(range(a, a + n), range(b, b + n)).
ZipRanges(a, b, n) == [i \in 1..n |-> <<a + i - 1, b + i - 1>>]

\* src/write-node-history.py, compute.
compute(array, t0, s0) ==
    NodeHistory(array, ZipRanges(t0, s0, array.ntimes))

\* The observable whose history is written.
Rho == <<"r", "h", "o">>

\* The values of a history as a list: a 0-d array is the one value it holds.
HistoryData(value) == IF value.kind = "scalar" THEN <<value.v>> ELSE value.v

\* A run of write-node-history.py: the nodes read, the history computed, the
\* file written and the exception that ended the run.
NodeRun(h, err, written) ==
    [kind |-> "run", pairs |-> h.pairs, value |-> h.value, err |-> err,
     file |-> written]

\* Nothing was read.
Unread == [kind |-> "history", pairs |-> <<>>, value |-> PyNone]

\* src/write-node-history.py, write, from compute on: the IndexError of
\* compute leaves write; otherwise the header and the rows are built (zip
\* raises TypeError on the 0-d history of a single time) and the file is
\* written.
WriteComputed(array, h) ==
    IF IsRaised(h.value) THEN NodeRun(h, h.value, NoFile)
    ELSE IF IsRaised(write(Rho, Observation(Rho, <<"c", "m", "^", "-", "3">>,
                                            array.dimensions, HistoryData(h.value))))
    THEN NodeRun(h, write(Rho, Observation(Rho, <<"c", "m", "^", "-", "3">>,
                                           array.dimensions, HistoryData(h.value))),
                 NoFile)
    ELSE NodeRun(h, PyNone,
                 write(Rho, Observation(Rho, <<"c", "m", "^", "-", "3">>,
                                        array.dimensions, HistoryData(h.value))))

\* src/write-node-history.py, main and write: write is called with the
\* default t0 and s0 = shell - time_step; a dimension of the observable that
\* main passes no index for is a KeyError before compute is called.
write_node_history(array, time_step, shell) ==
    IF Unindexed(array.dimensions) # <<>>
    THEN NodeRun(Unread, Raised("KeyError", Head(Unindexed(array.dimensions))), NoFile)
    ELSE WriteComputed(array, compute(array, 0, shell - time_step))

\* src/plot-node-history.py, compute_history: array[t-step, s-step, ...] for
\* t, s in zip(range(step, step+ntimes), range(shell, shell+ntimes)); the
\* axes of time and shell are sliced whole whatever the dimensions.
compute_history(array, step, shell) ==
    NodeHistory(array,
        [i \in 1..array.ntimes |->
            <<ZipRanges(step, shell, array.ntimes)[i][1] - step,
              ZipRanges(step, shell, array.ntimes)[i][2] - step>>])

InitNode ==
    /\ op = "none"
    /\ args = PyNone
    /\ user \in [time_step : 0..MaxTimes, shell : 0..MaxShells]
    /\ result = NoResult
    /\ dataset = 0
    /\ todo = <<>>
    /\ fig = NoFig
    /\ saved = <<>>
    /\ xyz = NoPoint
    /\ rtp = NoPoint
    /\ back = NoPoint
    /\ raw = NoPoint
    /\ series = NoSeries
    /\ xs = NoSeries
    /\ smoothed = NoSeries
    /\ obs \in { NodeArray(nt, ns, dims) :
                    nt \in 1..MaxTimes, ns \in 1..MaxShells, dims \in Dimensions }
    /\ file = NoFile
    /\ history = NoHistory
    /\ units = NoUnits
    /\ disk = {}
    /\ clock = 0
    /\ runs = 1
    /\ before = {}
    /\ terms = <<>>
    /\ props = NoProps
    /\ panel = NoPanel
    /\ markers = <<>>

\* write-node-history.py runs for the target node: it computes the history
\* and writes it to its file.
WriteCompute ==
    /\ result = NoResult
    /\ op' = "write-node-history"
    /\ result' = write_node_history(obs, user.time_step, user.shell)
    /\ file' = result'.file
    /\ disk' = IF result'.file = NoFile THEN disk ELSE disk \cup {WritePath(PyNone)}
    /\ UNCHANGED <<args, user, dataset, todo, fig, saved, xyz, rtp, back, raw, series, xs, smoothed, obs, history, units, clock, runs, before, terms, props, panel, markers>>

\* plot-node-history.py computes the history of the target node.
PlotComputeHistory ==
    /\ history = NoHistory
    /\ op' = "compute_history"
    /\ history' = compute_history(obs, user.time_step, user.shell)
    /\ UNCHANGED <<args, user, result, dataset, todo, fig, saved, xyz, rtp, back, raw, series, xs, smoothed, obs, file, units, disk, clock, runs, before, terms, props, panel, markers>>

NextNode ==
    \/ WriteCompute
    \/ PlotComputeHistory

SpecNode == InitNode /\ [][NextNode]_vars

\* The pairs (i, shell - step + i) for i = 0 .. ntimes-1.
NodePairs == [i \in 1..obs.ntimes |-> <<i - 1, user.shell - user.time_step + i - 1>>]

\* The target node is a node of the stream.
TargetExists == user.time_step < obs.ntimes /\ user.shell < obs.nshells

\* The pairs read pass through the target node: at the time index of the
\* step the shell index is the shell.
ThroughTarget(pairs) ==
    /\ Len(pairs) > user.time_step
    /\ pairs[user.time_step + 1] = <<user.time_step, user.shell>>

\* C28: for one target node, write-node-history.py and plot-node-history.py
\* read the same pairs, namely (i, shell - step + i) for i = 0 .. ntimes-1,
\* and the pairs read pass through the target node; stated of the runs in
\* which write-node-history.py gets as far as compute.
C28_SameNodes ==
    (result # NoResult /\ history # NoHistory
        /\ Unindexed(obs.dimensions) = <<>>) =>
        /\ result.pairs = NodePairs
        /\ history.pairs = NodePairs
        /\ TargetExists => ThroughTarget(result.pairs) /\ ThroughTarget(history.pairs)

\* Where write-node-history.py gets as far as compute, the two scripts read
\* the same nodes, a prefix of the pairs (i, shell - step + i), and get the
\* same history or the same IndexError; reads that all return are the
\* ntimes pairs, and they pass through a target node that exists.
SameReads ==
    (result # NoResult /\ history # NoHistory
        /\ Unindexed(obs.dimensions) = <<>>) =>
        /\ result.pairs = history.pairs
        /\ result.value = history.value
        /\ result.pairs = SubSeq(NodePairs, 1, Len(result.pairs))
        /\ ~IsRaised(result.value) =>
               /\ result.pairs = NodePairs
               /\ TargetExists => ThroughTarget(result.pairs)
        /\ IsRaised(result.value) =>
               /\ result.value = Raised("IndexError", "array")
               /\ Len(result.pairs) < obs.ntimes
               /\ LET s == user.shell - user.time_step + Len(result.pairs)
                  IN  s < -obs.nshells \/ s >= obs.nshells

\* A target node that exists, and reads that end in IndexError before they
\* reach it.
TargetUnread ==
    /\ result # NoResult
    /\ history # NoHistory
    /\ TargetExists
    /\ IsRaised(history.value)
    /\ Len(history.pairs) <= user.time_step

===========================================================================
